---------------------------- MODULE Spec2Model ----------------------------
(***************************************************************************)
(* Model of the NLML evaluation engine of the physics-informed Gaussian-   *)
(* process notebooks: kernel matrices, the joint covariance matrix K, the  *)
(* Cholesky / SVD solvers (whole-matrix and block), the NLML objectives    *)
(* and the analytic gradient.                                              *)
(*                                                                         *)
(* Numbers.  The notebooks compute in floating point; the model computes   *)
(* in exact rational arithmetic.  A rational is a pair <<p, q>> in lowest  *)
(* terms with q > 0; <<0, 0>> stands for nan.  Magnitudes are expressed in *)
(* multiples of each notebook's noise level, so a noise of 1e-7 (or the    *)
(* 1e-9 the contour-plot notebook passes) is the rational 1, and the       *)
(* Matern notebook's s = 0 is the rational 0.  Log-parameters are measured *)
(* in units of ln 2, so np.exp(p) is 2^p.                                  *)
(*                                                                         *)
(* Kernel closed forms.  The lambdified sympy expressions kuu_fn, kfu_fn   *)
(* and kff_fn are opaque callables of the coordinate differences: each is  *)
(* a table from difference to value, fixed for a run (one hyperparameter   *)
(* vector per run), and the hyperparameter arguments each objective hands  *)
(* to the kernel evaluators are recorded in kargs.  The time coordinate of *)
(* the 3D and advection notebooks is constant over the samples.            *)
(***************************************************************************)
EXTENDS Integers, Sequences, FiniteSets, TLC

(***************************************************************************)
(* Rational arithmetic                                                     *)
(***************************************************************************)
Abs(a) == IF a < 0 THEN -a ELSE a

RECURSIVE GCD(_, _)
GCD(a, b) == IF b = 0 THEN a ELSE GCD(b, a % b)

\* p/q in lowest terms, q # 0 (g is the gcd of |p| and |q|)
RatBy(p, q, g) == IF q < 0 THEN <<-(p \div g), -(q \div g)>> ELSE <<p \div g, q \div g>>
Rat(p, q) == RatBy(p, q, GCD(Abs(p), Abs(q)))

RInt(k) == <<k, 1>>
RZero == <<0, 1>>
ROne == <<1, 1>>
RAddBy(a, b, g) == Rat(a[1] * (b[2] \div g) + b[1] * (a[2] \div g), (a[2] \div g) * b[2])
RAdd(a, b) ==
    IF a[2] = 1 /\ b[2] = 1 THEN <<a[1] + b[1], 1>> ELSE RAddBy(a, b, GCD(a[2], b[2]))
RNeg(a) == <<-a[1], a[2]>>
RSub(a, b) == RAdd(a, RNeg(b))
RMulBy(a, b, g, h) == <<(a[1] \div g) * (b[1] \div h), (a[2] \div h) * (b[2] \div g)>>
RMul(a, b) ==
    IF a[2] = 1 /\ b[2] = 1 THEN <<a[1] * b[1], 1>>
    ELSE RMulBy(a, b, GCD(Abs(a[1]), b[2]), GCD(Abs(b[1]), a[2]))
\* a / b, b # 0
RDiv(a, b) == RMul(a, IF b[1] < 0 THEN <<-b[2], -b[1]>> ELSE <<b[2], b[1]>>)
RAbs(a) == <<Abs(a[1]), a[2]>>
RPos(a) == a[1] > 0
RIsZero(a) == a[1] = 0

RECURSIVE RPow(_, _)
RPow(a, k) == IF k = 0 THEN ROne ELSE RMul(a, RPow(a, k - 1))

\* sum of the first m entries of a sequence of rationals
RECURSIVE RSum(_, _)
RSum(f, m) == IF m = 0 THEN RZero ELSE RAdd(RSum(f, m - 1), f[m])

RECURSIVE RProd(_, _)
RProd(f, m) == IF m = 0 THEN ROne ELSE RMul(RProd(f, m - 1), f[m])

(***************************************************************************)
(* Dense matrices: a sequence of rows, each a sequence of rationals.       *)
(***************************************************************************)
Identity(m) == [i \in 1..m |-> [j \in 1..m |-> IF i = j THEN ROne ELSE RZero]]
Transpose(M) == [i \in 1..Len(M[1]) |-> [j \in 1..Len(M) |-> M[j][i]]]
MatAdd(A, B) == [i \in 1..Len(A) |-> [j \in 1..Len(A[1]) |-> RAdd(A[i][j], B[i][j])]]
MatSub(A, B) == [i \in 1..Len(A) |-> [j \in 1..Len(A[1]) |-> RSub(A[i][j], B[i][j])]]
MatNeg(A) == [i \in 1..Len(A) |-> [j \in 1..Len(A[1]) |-> RNeg(A[i][j])]]
MatScale(c, A) == [i \in 1..Len(A) |-> [j \in 1..Len(A[1]) |-> RMul(c, A[i][j])]]
MatMul(A, B) ==
    [i \in 1..Len(A) |-> [j \in 1..Len(B[1]) |->
        RSum([k \in 1..Len(B) |-> RMul(A[i][k], B[k][j])], Len(B))]]
MatVec(A, v) == [i \in 1..Len(A) |-> RSum([k \in 1..Len(v) |-> RMul(A[i][k], v[k])], Len(v))]
Dot(u, v) == RSum([k \in 1..Len(u) |-> RMul(u[k], v[k])], Len(u))
\* u @ A @ v
Quad(u, A, v) == Dot(u, MatVec(A, v))
Trace(A) == RSum([k \in 1..Len(A) |-> A[k][k]], Len(A))

\* M without row r and column c
Minor(M, r, c) ==
    [i \in 1..(Len(M) - 1) |-> [j \in 1..(Len(M) - 1) |->
        M[IF i < r THEN i ELSE i + 1][IF j < c THEN j ELSE j + 1]]]

\* determinant by expansion along the first row
RECURSIVE Det(_)
Det(M) ==
    IF Len(M) = 1 THEN M[1][1]
    ELSE IF Len(M) = 2 THEN RSub(RMul(M[1][1], M[2][2]), RMul(M[1][2], M[2][1]))
    ELSE RSum([j \in 1..Len(M) |->
                  IF RIsZero(M[1][j]) THEN RZero
                  ELSE RMul(IF j % 2 = 1 THEN M[1][j] ELSE RNeg(M[1][j]),
                            Det(Minor(M, 1, j)))], Len(M))

\* inverse of a nonsingular matrix with determinant d (adjugate over determinant)
InverseBy(M, d) ==
    IF Len(M) = 1 THEN <<<<RDiv(ROne, d)>>>>
    ELSE [i \in 1..Len(M) |-> [j \in 1..Len(M) |->
            RDiv(IF (i + j) % 2 = 0 THEN Det(Minor(M, j, i))
                 ELSE RNeg(Det(Minor(M, j, i))), d)]]
Inverse(M) == InverseBy(M, Det(M))

(***************************************************************************)
(* Values carrying a logarithm.  A value is a pair <<r, h>> standing for   *)
(* r + (1/2) * ln(h), with r rational and h a rational >= 0 (h = 0 stands  *)
(* for minus infinity, numpy's log(0)).  Because ln of a rational other    *)
(* than 1 is transcendental, two such values are equal exactly when their  *)
(* pairs are equal.                                                        *)
(***************************************************************************)
LRat(r) == <<r, ROne>>
\* np.log(a) for a rational a >= 0
LLog(a) == <<RZero, RMul(a, a)>>
\* np.log(np.abs(t)) for t = sqrt(d), d > 0
LLogSqrt(d) == <<RZero, d>>
LAdd(u, v) == <<RAdd(u[1], v[1]), RMul(u[2], v[2])>>
LTwice(u) == <<RMul(RInt(2), u[1]), RMul(u[2], u[2])>>

RECURSIVE LSum(_, _)
LSum(f, m) == IF m = 0 THEN LRat(RZero) ELSE LAdd(LSum(f, m - 1), f[m])

(***************************************************************************)
(* np.linalg.cholesky.  The factor L of M = L L^T is kept free of square   *)
(* roots as the pair (U, D): U unit lower triangular, D the pivots, with   *)
(* L = U * diag(sqrt(D)), so L[i,i] = sqrt(D[i]).  Only the lower triangle *)
(* of M is read.  LAPACK stops with "Matrix is not positive definite"      *)
(* (LinAlgError) at the first pivot that is not positive: ok = FALSE.      *)
(***************************************************************************)
\* M[i][j] minus the part of it that the first j - 1 columns of the factor explain
CholResidual(M, i, j, acc) ==
    RSub(M[i][j],
         RSum([k \in 1..(j - 1) |-> RMul(RMul(acc.U[i][k], acc.U[j][k]), acc.D[k])], j - 1))

RECURSIVE CholStep(_, _, _)
\* column j, whose pivot is d
CholColumn(M, j, acc, d) ==
    IF ~RPos(d) THEN [ok |-> FALSE, U |-> acc.U, D |-> acc.D]
    ELSE CholStep(M, j + 1,
                  [ok |-> TRUE,
                   U |-> [i \in 1..Len(M) |-> [c \in 1..Len(M) |->
                             IF c = j /\ i > j THEN RDiv(CholResidual(M, i, j, acc), d)
                             ELSE acc.U[i][c]]],
                   D |-> Append(acc.D, d)])
CholStep(M, j, acc) ==
    IF j > Len(M) THEN acc ELSE CholColumn(M, j, acc, CholResidual(M, j, j, acc))

cholesky(M) == CholStep(M, 1, [ok |-> TRUE, U |-> Identity(Len(M)), D |-> <<>>])

\* np.diag(L)**2
DiagSq(L) == L.D
\* L @ L.T
LLt(L) ==
    [i \in 1..Len(L.U) |-> [j \in 1..Len(L.U) |->
        RSum([k \in 1..Len(L.U) |-> RMul(RMul(L.U[i][k], L.D[k]), L.U[j][k])], Len(L.U))]]

(***************************************************************************)
(* scipy.linalg.solve_triangular(L, identity, lower=True): forward         *)
(* substitution, row by row.  The result L_inv = diag(1/sqrt(D)) * X is    *)
(* kept as the pair (X, D) with X the inverse of U.                        *)
(***************************************************************************)
RECURSIVE FwdRows(_, _, _)
FwdRows(U, i, rows) ==
    IF i > Len(U) THEN rows
    ELSE FwdRows(U, i + 1,
                 Append(rows,
                        [j \in 1..Len(U) |->
                            RSub(IF i = j THEN ROne ELSE RZero,
                                 RSum([k \in 1..(i - 1) |-> RMul(U[i][k], rows[k][j])],
                                      i - 1))]))

\* variant that skips the substitution and returns the identity
solve_triangular_NoSolve(L) == [X |-> Identity(Len(L.U)), D |-> L.D]
solve_triangular(L) == [X |-> FwdRows(L.U, 1, <<>>), D |-> L.D]

\* (L_inv.T).dot(L_inv)
GramT(Li) ==
    [i \in 1..Len(Li.X) |-> [j \in 1..Len(Li.X) |->
        RSum([k \in 1..Len(Li.X) |-> RDiv(RMul(Li.X[k][i], Li.X[k][j]), Li.D[k])],
             Len(Li.X))]]

(***************************************************************************)
(* np.linalg.svd.  The singular values of a matrix are irrational in       *)
(* general; the notebooks use them only through np.diag(s)'s inverse, the  *)
(* product vt.T @ inv(diag(s)) @ u.T, the sum of their logarithms and      *)
(* their product.  The result is therefore kept as: size (number of        *)
(* singular values), zero (some singular value is 0, i.e. det M = 0),      *)
(* prod (their product, |det M|) and M itself for the pseudo-inverse.      *)
(***************************************************************************)
svdBy(M, d) == [size |-> Len(M), zero |-> RIsZero(d), prod |-> RAbs(d), M |-> M]
svd(M) == svdBy(M, Det(M))

\* np.linalg.inv(np.diag(s)) raises LinAlgError("Singular matrix") iff some s[i] = 0
InvDiagRaises(sv) == sv.zero
\* vt.T @ np.linalg.inv(np.diag(s)) @ u.T, for singular values all nonzero
SvdInverse(sv) == InverseBy(sv.M, Det(sv.M))
\* the sum over i of np.log(s[i])
SvdLogSum(sv) == LLog(sv.prod)
\* np.prod(f * s)
SvdScaledProd(f, sv) == RMul(RPow(f, sv.size), sv.prod)

\* np.linalg.slogdet(M) for det M = d: the pair (sign, log|det M|)
slogdetBy(d) == <<RInt(IF RPos(d) THEN 1 ELSE IF RIsZero(d) THEN 0 ELSE -1), LLog(RAbs(d))>>

\* np.block([[A, B], [C, D]]) for four m x m blocks
BlockBy(A, B, C, D, m) ==
    [i \in 1..(2 * m) |-> [j \in 1..(2 * m) |->
        IF i <= m THEN (IF j <= m THEN A[i][j] ELSE B[i][j - m])
        ELSE (IF j <= m THEN C[i - m][j] ELSE D[i - m][j - m])]]
Block(A, B, C, D) == BlockBy(A, B, C, D, Len(A))
\* s * np.eye(m)
\* variant that adds the noise to every entry instead of the diagonal
NoiseEye_AllEntries(sn, m) == [i \in 1..m |-> [j \in 1..m |-> sn]]
NoiseEye(sn, m) == MatScale(sn, Identity(m))
\* np.concatenate((u, v))
Concat(u, v) == u \o v

(***************************************************************************)
(* Notebooks, data and configuration                                       *)
(***************************************************************************)
Notebooks == {"pde1", "svd_cmp", "advection", "example3d", "matern", "contour", "symbolic"}

\* n = 2 in the symbolic-gradient notebook; the other notebooks use larger n
MaxSamples == 2
\* kernel closed forms return values in 0..MaxK (multiples of the noise level)
MaxK == 1
\* the optimizer proposes parameter entries in -MaxTheta..MaxTheta
MaxTheta == 1
\* the partial-derivative closed forms return values in 0..MaxDK
MaxDK == 1
\* corr_nan, in grid units of the sample coordinates
corr_nan == 1

\* np.exp on the parameter grid
RECURSIVE Pow2(_)
Pow2(k) == IF k = 0 THEN 1 ELSE 2 * Pow2(k - 1)
Exp(p) == IF p >= 0 THEN <<Pow2(p), 1>> ELSE <<1, Pow2(-p)>>

\* sample coordinates drawn by simulate_data (np.random.rand), on a grid
XCoords == <<0, 3>>
YCoords == <<2, 0>>
\* observed values produced by simulate_data
YU == <<1, 2>>
YF == <<2, 1>>

simulate_data(nbk, m) ==
    [x |-> SubSeq(XCoords, 1, m),
     y |-> SubSeq(YCoords, 1, m),
     y_u |-> [i \in 1..m |-> RInt(YU[i])],
     y_f |-> [i \in 1..m |-> IF nbk = "example3d" THEN RZero ELSE RInt(YF[i])]]

\* the noise s each notebook configures (or passes at its call site)
NoiseOf(nbk) == IF nbk = "matern" THEN RZero ELSE ROne

\* the length of the parameter vector each notebook's optimizer proposes
ParamCount(nbk) ==
    CASE nbk = "pde1" -> 3
      [] nbk = "advection" -> 8
      [] nbk = "example3d" -> 5
      [] OTHER -> 4

VARIABLES
    nb,        \* the notebook that is running
    n,         \* number of data samples
    x, y,      \* sample coordinates
    y_u, y_f,  \* observed values
    s,         \* noise
    kuu_fn, kfu_fn, kff_fn,   \* lambdified kernel closed forms
    dk_fn,     \* lambdified partial derivatives, per hyperparameter
    params,    \* the parameter vector the optimizer proposes
    pc,        \* position inside the running evaluation
    fn,        \* the function being evaluated (or evaluated last)
    kargs,     \* hyperparameter arguments handed to the kernel evaluators
    loc,       \* locals of the running evaluation
    path,      \* decompositions executed by the running evaluation
    out,       \* last outcome of each function
    opt,       \* the optimizer: restart loop, run in progress, results
    Nfeval     \* module-level counter of callbackF

vars == <<nb, n, x, y, y_u, y_f, s, kuu_fn, kfu_fn, kff_fn, dk_fn, params,
          pc, fn, kargs, loc, path, out, opt, Nfeval>>
\* what no step of an objective or gradient evaluation assigns
config == <<nb, n, x, y, y_u, y_f, s, kuu_fn, kfu_fn, kff_fn, dk_fn, params, opt, Nfeval>>

(***************************************************************************)
(* Kernel evaluators                                                       *)
(***************************************************************************)
Diff(xi, xj, yi, yj) == <<xi - xj, yi - yj>>
NegKey(k) == <<-k[1], -k[2]>>
ZeroKey == <<0, 0>>
PertKey == Diff(0, corr_nan, 0, corr_nan)
PlainKeys(m) == {Diff(XCoords[i], XCoords[j], YCoords[i], YCoords[j]) : i, j \in 1..m}
DKeys == PlainKeys(MaxSamples) \cup {PertKey}

\* kuu_fn(x_i, x_j, y_i, y_j, ...), kfu_fn(...), kff_fn(...)
KernelValue(tab, xi, xj, yi, yj) == RInt(tab[Diff(xi, xj, yi, yj)])

kuu ==
    [i \in 1..Len(x) |-> [j \in 1..Len(x) |-> KernelValue(kuu_fn, x[i], x[j], y[i], y[j])]]

kff_plain ==
    [i \in 1..Len(x) |-> [j \in 1..Len(x) |-> KernelValue(kff_fn, x[i], x[j], y[i], y[j])]]
\* variant that evaluates the diagonal at the unperturbed coordinates
kff_matern_Unperturbed == kff_plain
kff_matern ==
    [i \in 1..Len(x) |-> [j \in 1..Len(x) |->
        IF i = j THEN KernelValue(kff_fn, x[i], x[j] + corr_nan, y[i], y[j] + corr_nan)
        ELSE KernelValue(kff_fn, x[i], x[j], y[i], y[j])]]
kff == IF nb = "matern" THEN kff_matern ELSE kff_plain

\* variant that hands the points to the closed form in the opposite order
kfu_plain_Swapped ==
    [i \in 1..Len(x) |-> [j \in 1..Len(x) |-> KernelValue(kfu_fn, x[j], x[i], y[j], y[i])]]
kfu_plain ==
    [i \in 1..Len(x) |-> [j \in 1..Len(x) |-> KernelValue(kfu_fn, x[i], x[j], y[i], y[j])]]
kfu_matern ==
    [i \in 1..Len(x) |-> [j \in 1..Len(x) |->
        IF i = j THEN KernelValue(kfu_fn, x[i], x[j] + corr_nan, y[i], y[j] + corr_nan)
        ELSE KernelValue(kfu_fn, x[i], x[j], y[i], y[j])]]
kfu == IF nb = "matern" THEN kfu_matern ELSE kfu_plain

\* variant that reuses kfu without transposing it
kuf_NotTransposed == kfu
kuf == Transpose(kfu)

\* K(...): the joint covariance matrix
K == Block(MatAdd(kuu, NoiseEye(s, n)), kuf, kfu, MatAdd(kff, NoiseEye(s, n)))

\* variant with the f-type values first
y_con_FFirst == Concat(y_f, y_u)
\* y_con = np.concatenate((y_u, y_f))
y_con == Concat(y_u, y_f)

(***************************************************************************)
(* Partial derivatives of K (PDE 1 notebook).  kuu_l_x, kfu_l_x, kff_l_x   *)
(* and their l_y and phi counterparts are lambdified closed forms, tables  *)
(* like the kernels: dk_fn[h] holds the three tables of hyperparameter h   *)
(* (1 = l_x, 2 = l_y, 3 = phi).                                            *)
(***************************************************************************)
\* the conditions of the four if statements of the loop body, in source order
DerivCond(c, i, j) ==
    CASE c = 1 -> i <= n /\ j <= n
      [] c = 2 -> i <= n /\ j > n
      [] c = 3 -> i > n /\ j <= n
      [] c = 4 -> i > n /\ j > n
\* the value the c-th if statement assigns to k[i,j]
DerivValue(d, c, i, j) ==
    CASE c = 1 -> KernelValue(d.uu, x[i], x[j], y[i], y[j])
      [] c = 2 -> KernelValue(d.fu, x[j - n], x[i], y[j - n], y[i])
      [] c = 3 -> KernelValue(d.fu, x[i - n], x[j], y[i - n], y[j])
      [] c = 4 -> KernelValue(d.ff, x[i - n], x[j - n], y[i - n], y[j - n])
\* k[i,j] after the first c if statements of one pass of the loop body, from
\* np.zeros, with the number of assignments made to it
RECURSIVE DerivEntry(_, _, _, _)
DerivEntry(d, i, j, c) ==
    IF c = 0 THEN [val |-> RZero, writes |-> 0]
    ELSE IF DerivCond(c, i, j)
         THEN [val |-> DerivValue(d, c, i, j), writes |-> DerivEntry(d, i, j, c - 1).writes + 1]
         ELSE DerivEntry(d, i, j, c - 1)

\* variant whose upper-right block is kfu evaluated without the transposition
DerivMatrix_UpperNotTransposed(d) ==
    [i \in 1..(2 * n) |-> [j \in 1..(2 * n) |->
        IF i <= n /\ j > n THEN KernelValue(d.fu, x[i], x[j - n], y[i], y[j - n])
        ELSE DerivEntry(d, i, j, 4).val]]
DerivMatrix(d) ==
    [i \in 1..(2 * n) |-> [j \in 1..(2 * n) |-> DerivEntry(d, i, j, 4).val]]

K_l_x == DerivMatrix(dk_fn[1])
K_l_y == DerivMatrix(dk_fn[2])
K_phi == DerivMatrix(dk_fn[3])

(***************************************************************************)
(* Initial states: a notebook with its configuration cell executed, its    *)
(* data simulated and its closed forms lambdified; nothing evaluated yet.  *)
(***************************************************************************)
\* tables that vanish outside keys; kuu and kff closed forms are even in the difference
Tables(keys, even) ==
    {f \in [DKeys -> 0..MaxK] :
        /\ \A k \in DKeys \ keys : f[k] = 0
        /\ even => \A k \in DKeys : NegKey(k) \in DKeys => f[k] = f[NegKey(k)]}

\* differences at which kfu_fn and kff_fn are evaluated
CrossKeys(nbk, m) ==
    IF nbk = "matern" THEN (PlainKeys(m) \ {ZeroKey}) \cup {PertKey} ELSE PlainKeys(m)

ZeroTable == [k \in DKeys |-> 0]
DiagTable == [k \in DKeys |-> IF k \in {ZeroKey, PertKey} THEN 1 ELSE 0]

\* a derivative closed form that is nonzero at one difference of one block
DerivSlots ==
    LET d == Diff(XCoords[1], XCoords[2], YCoords[1], YCoords[2])
    IN  << <<"uu", ZeroKey>>, <<"fu", d>>, <<"ff", ZeroKey>>, <<"uu", d>>,
           <<"fu", ZeroKey>>, <<"ff", d>>, <<"fu", NegKey(d)>> >>
DerivTable(slot, v) ==
    [uu |-> [k \in DKeys |-> IF slot[1] = "uu" /\ (k = slot[2] \/ NegKey(k) = slot[2])
                             THEN v ELSE 0],
     fu |-> [k \in DKeys |-> IF slot[1] = "fu" /\ k = slot[2] THEN v ELSE 0],
     ff |-> [k \in DKeys |-> IF slot[1] = "ff" /\ (k = slot[2] \/ NegKey(k) = slot[2])
                             THEN v ELSE 0]]
NoDeriv == [h \in 1..3 |-> [uu |-> ZeroTable, fu |-> ZeroTable, ff |-> ZeroTable]]
DerivChoice(c, v) ==
    [h \in 1..3 |-> DerivTable(DerivSlots[((c + h) % Len(DerivSlots)) + 1], v)]
DerivChoices == {DerivChoice(c, v) : c \in 1..Len(DerivSlots), v \in 1..MaxDK}

\* parameter vectors: every entry b except one entry a
Thetas(k) ==
    {[i \in 1..k |-> IF i = j THEN a ELSE b] :
        j \in 1..k, a \in (-MaxTheta)..MaxTheta, b \in (-MaxTheta)..MaxTheta}
Theta0(k) == [i \in 1..k |-> IF i % 2 = 1 THEN 1 ELSE -1]

Functions ==
    {"nlml", "nlml_block", "grad_nlml", "nlml_svd", "nlml_wp"}

Nil == <<>>
NoLocals ==
    [K |-> Nil, A |-> Nil, B |-> Nil, C |-> Nil, A_inv |-> Nil, KA |-> Nil,
     KA_inv |-> Nil, K_inv |-> Nil, det_A |-> Nil, det_KA |-> Nil,
     logdet_A |-> Nil, logdet_KA |-> Nil, log_sum |-> Nil, f |-> Nil,
     det_fK |-> Nil, grad |-> Nil, kfu_runs |-> 0, sym_det |-> 0, sym_inv |-> 0]
\* the locals l after a call of K(...): np.block evaluates kuf(...), which runs
\* the loop of kfu, and kfu(...), which runs it again
\* variant whose second call adds the noise once more
K_built_NoiseAgain(l) ==
    [l EXCEPT !.K = IF l.K = Nil THEN K ELSE MatAdd(K, NoiseEye(s, 2 * n)),
              !.kfu_runs = @ + 2]
K_built(l) == [l EXCEPT !.K = K, !.kfu_runs = @ + 2]

NoOutcome == [kind |-> "none", val |-> Nil]

\* no optimizer run yet
NoRun ==
    [pc |-> "idle", n |-> 0, it |-> 0, all_results |-> <<>>, evals |-> <<>>,
     nit |-> 0, result |-> Nil]

\* nothing evaluated, nothing optimized, the cell Nfeval = 1 executed
Fresh ==
    /\ opt = NoRun
    /\ Nfeval = 1
    /\ pc = "idle"
    /\ fn = "none"
    /\ kargs = <<>>
    /\ loc = NoLocals
    /\ path = <<>>
    /\ out = [g \in Functions |-> NoOutcome]

Configured(nbk, m) ==
    /\ nb = nbk
    /\ n = m
    /\ x = simulate_data(nbk, m).x
    /\ y = simulate_data(nbk, m).y
    /\ y_u = simulate_data(nbk, m).y_u
    /\ y_f = simulate_data(nbk, m).y_f
    /\ s = NoiseOf(nbk)

\* any closed forms, one parameter vector
AnyKernels(nbk, m) ==
    /\ kuu_fn \in Tables(PlainKeys(m), TRUE)
    /\ kfu_fn \in Tables(CrossKeys(nbk, m), FALSE)
    /\ kff_fn \in Tables(CrossKeys(nbk, m), TRUE)
    /\ params = Theta0(ParamCount(nbk))

\* one set of closed forms, any parameter vector
AnyParams(nbk) ==
    /\ kuu_fn = DiagTable
    /\ kfu_fn = ZeroTable
    /\ kff_fn = DiagTable
    /\ params \in Thetas(ParamCount(nbk))

Init ==
    /\ \E nbk \in Notebooks, m \in 1..MaxSamples :
          /\ Configured(nbk, m)
          /\ AnyKernels(nbk, m) \/ AnyParams(nbk)
          /\ dk_fn = IF nbk = "pde1" THEN DerivChoice(0, 1) ELSE NoDeriv
    /\ Fresh

\* the PDE 1 notebook with any partial-derivative closed forms
InitGrad ==
    /\ \E m \in 1..MaxSamples :
          /\ Configured("pde1", m)
          /\ AnyKernels("pde1", m)
    /\ dk_fn \in DerivChoices
    /\ Fresh

(***************************************************************************)
(* The two tiers of every solver.  A try block factors M by Cholesky and   *)
(* inverts through the triangular factor; its except block, entered on     *)
(* LinAlgError, inverts through the SVD, and a LinAlgError raised there    *)
(* (singular diagonal) leaves the function.                                *)
(***************************************************************************)
TryBlockBy(L) ==
    [ok |-> L.ok, L |-> L, inv |-> IF L.ok THEN GramT(solve_triangular(L)) ELSE Nil]
TryBlock(M) == TryBlockBy(cholesky(M))

ExceptBlockBy(sv) ==
    [ok |-> ~InvDiagRaises(sv), sv |-> sv,
     inv |-> IF InvDiagRaises(sv) THEN Nil ELSE SvdInverse(sv)]
ExceptBlock(M) == ExceptBlockBy(svd(M))

Event(stage, op, ok) == [stage |-> stage, op |-> op, ok |-> ok]

\* variant that adds the value the function returned last time
Returns_AddsPrevious(g, v) ==
    out' = [out EXCEPT ![g] = [kind |-> "value",
                               val |-> IF out[g].kind = "value" THEN LAdd(out[g].val, v)
                                       ELSE v]]
Returns(g, v) == out' = [out EXCEPT ![g] = [kind |-> "value", val |-> v]]
\* an exception leaves the function and reaches the optimizer's caller
Raises(g) == out' = [out EXCEPT ![g] = [kind |-> "raised", val |-> Nil]]

\* KA = C - B.T @ A_inv @ B
\* variant that leaves A_inv out of the product
SchurComplement_NoInverse(A_inv, B, C) == MatSub(C, MatMul(Transpose(B), B))
SchurComplement(A_inv, B, C) == MatSub(C, MatMul(MatMul(Transpose(B), A_inv), B))
\* T = A_inv @ B @ KA_inv
TMatrix(A_inv, B, KA_inv) == MatMul(MatMul(A_inv, B), KA_inv)
\* y_u @ (A_inv + T @ B.T @ A_inv) @ y_u - 2*y_u @ T @ y_f + y_f @ KA_inv @ y_f
BlockQuadBy(A_inv, B, KA_inv, T) ==
    RAdd(RSub(Quad(y_u, MatAdd(A_inv, MatMul(MatMul(T, Transpose(B)), A_inv)), y_u),
              RMul(RInt(2), Quad(y_u, T, y_f))),
         Quad(y_f, KA_inv, y_f))
BlockQuad(A_inv, B, KA_inv) == BlockQuadBy(A_inv, B, KA_inv, TMatrix(A_inv, B, KA_inv))

(***************************************************************************)
(* PDE 1 notebook: nlml (whole matrix, form B)                             *)
(***************************************************************************)
nlml_pde1_Call ==
    /\ pc = "idle" /\ nb = "pde1"
    /\ fn' = "nlml"
    /\ kargs' = <<Exp(params[1]), Exp(params[2]), RInt(params[3])>>
    /\ loc' = K_built(NoLocals)
    /\ path' = <<>>
    /\ pc' = "nlml_try"
    /\ UNCHANGED <<config, out>>

\* val = np.linalg.det((y_con @ K_inv @ y_con)*(L @ L.T))
nlml_pde1_TryValue(f, L) == Det(MatScale(f, LLt(L)))
\* val = np.prod((y_con @ K_inv @ y_con)*s_mat)
nlml_pde1_ExceptValue(f, sv) == SvdScaledProd(f, sv)

nlml_pde1_Return(l, K_inv, f, val) ==
    /\ loc' = [l EXCEPT !.K_inv = K_inv, !.f = f]
    /\ Returns("nlml", val)

\* variant that enters the except block whatever the Cholesky outcome
nlml_pde1_Try_AlwaysExcept ==
    /\ pc = "nlml_try"
    /\ path' = Append(path, Event("K", "cholesky", cholesky(loc.K).ok))
    /\ pc' = "nlml_except"
    /\ UNCHANGED <<config, fn, kargs, loc, out>>
nlml_pde1_Try ==
    /\ pc = "nlml_try"
    /\ \E t \in {TryBlock(loc.K)} :
          IF t.ok
          THEN /\ path' = Append(path, Event("K", "cholesky", TRUE))
               /\ \E f \in {Quad(y_con, t.inv, y_con)} :
                     nlml_pde1_Return(loc, t.inv, f, nlml_pde1_TryValue(f, t.L))
               /\ pc' = "idle"
          ELSE /\ path' = Append(path, Event("K", "cholesky", FALSE))
               /\ pc' = "nlml_except"
               /\ UNCHANGED <<loc, out>>
    /\ UNCHANGED <<config, fn, kargs>>

\* the except block builds K again
nlml_pde1_Except ==
    /\ pc = "nlml_except"
    /\ \E e \in {ExceptBlock(K)} :
          IF e.ok
          THEN /\ path' = Append(path, Event("K", "svd", TRUE))
               /\ \E f \in {Quad(y_con, e.inv, y_con)} :
                     nlml_pde1_Return(K_built(loc), e.inv, f, nlml_pde1_ExceptValue(f, e.sv))
          ELSE /\ path' = Append(path, Event("K", "svd", FALSE))
               /\ loc' = K_built(loc)
               /\ Raises("nlml")
    /\ pc' = "idle"
    /\ UNCHANGED <<config, fn, kargs>>

(***************************************************************************)
(* Advection-diffusion notebook: K_inv_and_det (whole matrix) and nlml     *)
(***************************************************************************)
nlml_adv_Call ==
    /\ pc = "idle" /\ nb = "advection"
    /\ fn' = "nlml"
    /\ kargs' = <<Exp(params[1]), Exp(params[2]), Exp(params[3]), Exp(params[4]),
                  RInt(params[5]), RInt(params[6]), RInt(params[7]), RInt(params[8])>>
    /\ loc' = K_built(NoLocals)
    /\ path' = <<>>
    /\ pc' = "kid_try"
    /\ UNCHANGED <<config, out>>

\* log_sum = log_sum + np.log(np.abs(L[i,i])), i in range(2*n)
K_inv_and_det_TryLogSum(L) == LSum([i \in 1..Len(L.D) |-> LLogSqrt(L.D[i])], Len(L.D))
\* log_sum = log_sum + np.log(s_mat[i]), i in range(s_mat.size)
K_inv_and_det_ExceptLogSum(sv) == SvdLogSum(sv)

\* K_inv_and_det returns (K_inv, log_sum) and nlml returns b + y_con @ A @ y_con
nlml_adv_Return(l, K_inv, log_sum) ==
    /\ loc' = [l EXCEPT !.K_inv = K_inv, !.log_sum = log_sum]
    /\ Returns("nlml", LAdd(log_sum, LRat(Quad(y_con, K_inv, y_con))))

K_inv_and_det_Try ==
    /\ pc = "kid_try"
    /\ \E t \in {TryBlock(loc.K)} :
          IF t.ok
          THEN /\ path' = Append(path, Event("K", "cholesky", TRUE))
               /\ nlml_adv_Return(loc, t.inv, K_inv_and_det_TryLogSum(t.L))
               /\ pc' = "idle"
          ELSE /\ path' = Append(path, Event("K", "cholesky", FALSE))
               /\ pc' = "kid_except"
               /\ UNCHANGED <<loc, out>>
    /\ UNCHANGED <<config, fn, kargs>>

\* the except block builds K again
K_inv_and_det_Except ==
    /\ pc = "kid_except"
    /\ \E e \in {ExceptBlock(K)} :
          IF e.ok
          THEN /\ path' = Append(path, Event("K", "svd", TRUE))
               /\ nlml_adv_Return(K_built(loc), e.inv, K_inv_and_det_ExceptLogSum(e.sv))
          ELSE /\ path' = Append(path, Event("K", "svd", FALSE))
               /\ loc' = K_built(loc)
               /\ Raises("nlml")
    /\ pc' = "idle"
    /\ UNCHANGED <<config, fn, kargs>>

(***************************************************************************)
(* PDE 1 notebook: nlml_block (Schur complement, form B)                   *)
(***************************************************************************)
\* A, B, C of a block objective
BlockLocals ==
    [NoLocals EXCEPT !.A = MatAdd(kuu, NoiseEye(s, n)),
                     !.B = Transpose(kfu),
                     !.C = MatAdd(kff, NoiseEye(s, n)),
                     !.kfu_runs = 1]

nlml_block_Call ==
    /\ pc = "idle" /\ nb = "pde1"
    /\ fn' = "nlml_block"
    /\ kargs' = <<Exp(params[1]), Exp(params[2]), RInt(params[3])>>
    /\ loc' = BlockLocals
    /\ path' = <<>>
    /\ pc' = "blk_tryA"
    /\ UNCHANGED <<config, out>>

nlml_block_TryA ==
    /\ pc = "blk_tryA"
    /\ \E t \in {TryBlock(loc.A)} :
          IF t.ok
          THEN /\ path' = Append(path, Event("A", "cholesky", TRUE))
               /\ loc' = [loc EXCEPT !.A_inv = t.inv,
                                     !.det_A = RProd(DiagSq(t.L), n),
                                     !.KA = SchurComplement(t.inv, loc.B, loc.C)]
               /\ pc' = "blk_tryKA"
          ELSE /\ path' = Append(path, Event("A", "cholesky", FALSE))
               /\ pc' = "blk_exceptA"
               /\ UNCHANGED loc
    /\ UNCHANGED <<config, fn, kargs, out>>

nlml_block_ExceptA ==
    /\ pc = "blk_exceptA"
    /\ \E e \in {ExceptBlock(loc.A)} :
          IF e.ok
          THEN /\ path' = Append(path, Event("A", "svd", TRUE))
               /\ loc' = [loc EXCEPT !.A_inv = e.inv,
                                     !.det_A = e.sv.prod,
                                     !.KA = SchurComplement(e.inv, loc.B, loc.C)]
               /\ pc' = "blk_tryKA"
               /\ UNCHANGED out
          ELSE /\ path' = Append(path, Event("A", "svd", FALSE))
               /\ pc' = "idle"
               /\ Raises("nlml_block")
               /\ UNCHANGED loc
    /\ UNCHANGED <<config, fn, kargs>>

\* np.linalg.det(factor*A)*np.linalg.det(factor*KA)
nlml_block_Value(factor, A, KA) ==
    RMul(Det(MatScale(factor, A)), Det(MatScale(factor, KA)))

nlml_block_Return(KA_inv, det_KA, factor) ==
    /\ loc' = [loc EXCEPT !.KA_inv = KA_inv, !.det_KA = det_KA, !.f = factor]
    /\ Returns("nlml_block", nlml_block_Value(factor, loc.A, loc.KA))

nlml_block_TryKA ==
    /\ pc = "blk_tryKA"
    /\ \E t \in {TryBlock(loc.KA)} :
          IF t.ok
          THEN /\ path' = Append(path, Event("KA", "cholesky", TRUE))
               /\ nlml_block_Return(t.inv, RProd(DiagSq(t.L), n),
                                    BlockQuad(loc.A_inv, loc.B, t.inv))
               /\ pc' = "idle"
          ELSE /\ path' = Append(path, Event("KA", "cholesky", FALSE))
               /\ pc' = "blk_exceptKA"
               /\ UNCHANGED <<loc, out>>
    /\ UNCHANGED <<config, fn, kargs>>

nlml_block_ExceptKA ==
    /\ pc = "blk_exceptKA"
    /\ \E e \in {ExceptBlock(loc.KA)} :
          IF e.ok
          THEN /\ path' = Append(path, Event("KA", "svd", TRUE))
               /\ nlml_block_Return(e.inv, e.sv.prod, BlockQuad(loc.A_inv, loc.B, e.inv))
          ELSE /\ path' = Append(path, Event("KA", "svd", FALSE))
               /\ Raises("nlml_block")
               /\ UNCHANGED loc
    /\ pc' = "idle"
    /\ UNCHANGED <<config, fn, kargs>>

(***************************************************************************)
(* PDE 1 notebook: grad_nlml, which calls grad_L, which calls the block    *)
(* K_inv_and_det                                                           *)
(***************************************************************************)
grad_nlml_Call ==
    /\ pc = "idle" /\ nb = "pde1"
    /\ fn' = "grad_nlml"
    /\ kargs' = <<Exp(params[1]), Exp(params[2]), RInt(params[3])>>
    /\ loc' = BlockLocals
    /\ path' = <<>>
    /\ pc' = "grad_tryA"
    /\ UNCHANGED <<config, out>>

K_inv_and_det_block_TryA ==
    /\ pc = "grad_tryA"
    /\ \E t \in {TryBlock(loc.A)} :
          IF t.ok
          THEN /\ path' = Append(path, Event("A", "cholesky", TRUE))
               /\ loc' = [loc EXCEPT !.A_inv = t.inv,
                                     !.KA = SchurComplement(t.inv, loc.B, loc.C)]
               /\ pc' = "grad_tryKA"
          ELSE /\ path' = Append(path, Event("A", "cholesky", FALSE))
               /\ pc' = "grad_exceptA"
               /\ UNCHANGED loc
    /\ UNCHANGED <<config, fn, kargs, out>>

K_inv_and_det_block_ExceptA ==
    /\ pc = "grad_exceptA"
    /\ \E e \in {ExceptBlock(loc.A)} :
          IF e.ok
          THEN /\ path' = Append(path, Event("A", "svd", TRUE))
               /\ loc' = [loc EXCEPT !.A_inv = e.inv,
                                     !.KA = SchurComplement(e.inv, loc.B, loc.C)]
               /\ pc' = "grad_tryKA"
               /\ UNCHANGED out
          ELSE /\ path' = Append(path, Event("A", "svd", FALSE))
               /\ pc' = "idle"
               /\ Raises("grad_nlml")
               /\ UNCHANGED loc
    /\ UNCHANGED <<config, fn, kargs>>

\* K_inv = np.block([[A_inv + T @ B.T @ A_inv, -T], [-T.T, KA_inv]])
BlockInverseBy(A_inv, B, KA_inv, T) ==
    Block(MatAdd(A_inv, MatMul(MatMul(T, Transpose(B)), A_inv)), MatNeg(T),
          MatNeg(Transpose(T)), KA_inv)
BlockInverse(A_inv, B, KA_inv) == BlockInverseBy(A_inv, B, KA_inv, TMatrix(A_inv, B, KA_inv))

\* det_fK = np.linalg.det(f*A)*np.linalg.det(f*KA)
det_fK_Value(f, A, KA) == RMul(Det(MatScale(f, A)), Det(MatScale(f, KA)))

NaN == <<0, 0>>
IsNaN(a) == a[2] = 0

\* det_fK*(np.trace(K_inv @ K_i) - (2*n*w.T @ K_i @ w) / (y_con @ w)); a zero
\* y_con @ w makes the quotient infinite or nan, and det_fK is 0 then
\* variant with the factor n in place of 2*n
grad_L_comp_FactorN(K_inv, dfK, K_i, w) ==
    IF RIsZero(Dot(y_con, w)) THEN NaN
    ELSE RMul(dfK, RSub(Trace(MatMul(K_inv, K_i)),
                        RDiv(RMul(RInt(n), Quad(w, K_i, w)), Dot(y_con, w))))
grad_L_comp(K_inv, dfK, K_i, w) ==
    IF RIsZero(Dot(y_con, w)) THEN NaN
    ELSE RMul(dfK, RSub(Trace(MatMul(K_inv, K_i)),
                        RDiv(RMul(RInt(2 * n), Quad(w, K_i, w)), Dot(y_con, w))))

\* [comp_1, comp_2, comp_3] with w = K_inv @ y_con
grad_L(K_inv, dfK, w) ==
    <<grad_L_comp(K_inv, dfK, K_l_x, w), grad_L_comp(K_inv, dfK, K_l_y, w),
      grad_L_comp(K_inv, dfK, K_phi, w)>>

\* np.array([grad_L(...)]).dot(np.diag([np.exp(par[0]), np.exp(par[1]), 1]))
\* variant that returns the raw derivatives of grad_L
grad_nlml_Value_Raw(g) == g
grad_nlml_Value(g) ==
    [i \in 1..3 |-> IF IsNaN(g[i]) THEN NaN
                    ELSE RMul(g[i], <<Exp(params[1]), Exp(params[2]), ROne>>[i])]

\* the rest of K_inv_and_det, of grad_L and of grad_nlml once KA is inverted
grad_Finish(KA_inv) ==
    \E K_inv \in {BlockInverse(loc.A_inv, loc.B, KA_inv)} :
    \E f \in {Quad(y_con, K_inv, y_con)} :
    \E dfK \in {det_fK_Value(f, loc.A, loc.KA)} :
    \E g \in {grad_L(K_inv, dfK, MatVec(K_inv, y_con))} :
        /\ loc' = [loc EXCEPT !.KA_inv = KA_inv, !.K_inv = K_inv, !.f = f,
                              !.det_fK = dfK, !.grad = g]
        /\ Returns("grad_nlml", grad_nlml_Value(g))

K_inv_and_det_block_TryKA ==
    /\ pc = "grad_tryKA"
    /\ \E t \in {TryBlock(loc.KA)} :
          IF t.ok
          THEN /\ path' = Append(path, Event("KA", "cholesky", TRUE))
               /\ grad_Finish(t.inv)
               /\ pc' = "idle"
          ELSE /\ path' = Append(path, Event("KA", "cholesky", FALSE))
               /\ pc' = "grad_exceptKA"
               /\ UNCHANGED <<loc, out>>
    /\ UNCHANGED <<config, fn, kargs>>

K_inv_and_det_block_ExceptKA ==
    /\ pc = "grad_exceptKA"
    /\ \E e \in {ExceptBlock(loc.KA)} :
          IF e.ok
          THEN /\ path' = Append(path, Event("KA", "svd", TRUE))
               /\ grad_Finish(e.inv)
          ELSE /\ path' = Append(path, Event("KA", "svd", FALSE))
               /\ Raises("grad_nlml")
               /\ UNCHANGED loc
    /\ pc' = "idle"
    /\ UNCHANGED <<config, fn, kargs>>

(***************************************************************************)
(* SVD-comparison and contour-plot notebooks: nlml and nlml_svd            *)
(***************************************************************************)
\* np.linalg.slogdet(K) + np.mat(y) * np.linalg.inv(K) * np.mat(y).T: the pair
\* (sign, logdet) that slogdet returns is broadcast against the 1 x 1 matrix
slogdet_plus(sl, q) == <<LRat(RAdd(sl[1], q)), LAdd(sl[2], LRat(q))>>
\* val.item(0)
item0(val) == val[1]

nlml_cmp_Value(Kmat, d) ==
    item0(slogdet_plus(slogdetBy(d), Quad(y_con, InverseBy(Kmat, d), y_con)))

nlml_cmp ==
    /\ pc = "idle" /\ nb \in {"svd_cmp", "contour"}
    /\ fn' = "nlml"
    /\ kargs' = <<Exp(params[1]), Exp(params[2]), Exp(params[3]), RInt(params[4])>>
    /\ path' = <<>>
    /\ IF Len(y) < Len(x)
       THEN \* the kernel loops read y[i] for i in range(x.size): IndexError
            /\ loc' = NoLocals
            /\ Raises("nlml")
       ELSE \E Kmat \in {K} : \E d \in {Det(Kmat)} :
          /\ loc' = K_built(NoLocals)
          /\ IF RIsZero(d) \/ Len(y_con) # Len(Kmat)
             THEN \* LinAlgError of np.linalg.inv, or ValueError of np.mat(y) * ...
                  Raises("nlml")
             ELSE Returns("nlml", nlml_cmp_Value(Kmat, d))
    /\ UNCHANGED <<config, pc>>

\* variant in which binding the singular values to s writes the module-level noise
nlml_svd_WritesNoise ==
    /\ pc = "idle" /\ nb = "svd_cmp"
    /\ fn' = "nlml_svd"
    /\ kargs' = <<Exp(params[1]), Exp(params[2]), Exp(params[3]), RInt(params[4])>>
    /\ IF Len(y) < Len(x)
       THEN \* the kernel loops read y[i] for i in range(x.size): IndexError
            /\ path' = <<>>
            /\ loc' = NoLocals
            /\ Raises("nlml_svd")
       ELSE \E e \in {ExceptBlock(K)} :
          IF e.ok
          THEN /\ path' = <<Event("K", "svd", TRUE)>>
               /\ loc' = [K_built(NoLocals) EXCEPT !.K_inv = e.inv,
                                                !.log_sum = SvdLogSum(e.sv)]
               /\ IF Len(y_con) = Len(e.sv.M)
                  THEN Returns("nlml_svd",
                               LAdd(SvdLogSum(e.sv), LRat(Quad(y_con, e.inv, y_con))))
                  ELSE \* np.mat(y) * K_inv: shapes not aligned, ValueError
                       Raises("nlml_svd")
          ELSE \* the loop over np.log(np.abs(s[i])) has run when np.linalg.inv raises
               /\ path' = <<Event("K", "svd", FALSE)>>
               /\ loc' = [K_built(NoLocals) EXCEPT !.log_sum = SvdLogSum(e.sv)]
               /\ Raises("nlml_svd")
    /\ s' = RAdd(s, ROne)
    /\ UNCHANGED <<nb, n, x, y, y_u, y_f, kuu_fn, kfu_fn, kff_fn, dk_fn, params, opt,
                   Nfeval, pc>>

nlml_svd ==
    /\ pc = "idle" /\ nb = "svd_cmp"
    /\ fn' = "nlml_svd"
    /\ kargs' = <<Exp(params[1]), Exp(params[2]), Exp(params[3]), RInt(params[4])>>
    /\ IF Len(y) < Len(x)
       THEN \* the kernel loops read y[i] for i in range(x.size): IndexError
            /\ path' = <<>>
            /\ loc' = NoLocals
            /\ Raises("nlml_svd")
       ELSE \E e \in {ExceptBlock(K)} :
          IF e.ok
          THEN /\ path' = <<Event("K", "svd", TRUE)>>
               /\ loc' = [K_built(NoLocals) EXCEPT !.K_inv = e.inv,
                                                !.log_sum = SvdLogSum(e.sv)]
               /\ IF Len(y_con) = Len(e.sv.M)
                  THEN Returns("nlml_svd",
                               LAdd(SvdLogSum(e.sv), LRat(Quad(y_con, e.inv, y_con))))
                  ELSE \* np.mat(y) * K_inv: shapes not aligned, ValueError
                       Raises("nlml_svd")
          ELSE \* the loop over np.log(np.abs(s[i])) has run when np.linalg.inv raises
               /\ path' = <<Event("K", "svd", FALSE)>>
               /\ loc' = [K_built(NoLocals) EXCEPT !.log_sum = SvdLogSum(e.sv)]
               /\ Raises("nlml_svd")
    /\ UNCHANGED <<config, pc>>

(***************************************************************************)
(* 3D-example and Matern notebooks: nlml (Schur complement, form A)        *)
(***************************************************************************)
nlml_3d_Call ==
    /\ pc = "idle" /\ nb = "example3d"
    /\ fn' = "nlml"
    /\ kargs' = <<Exp(params[1]), Exp(params[2]), Exp(params[3]), Exp(params[4]),
                  RInt(params[5])>>
    /\ loc' = BlockLocals
    /\ path' = <<>>
    /\ pc' = "nlml_tryA"
    /\ UNCHANGED <<config, out>>

nlml_matern_Call ==
    /\ pc = "idle" /\ nb = "matern"
    /\ fn' = "nlml"
    /\ kargs' = <<Exp(params[1]), Exp(params[2]), Exp(params[3]), RInt(params[4])>>
    /\ loc' = BlockLocals
    /\ path' = <<>>
    /\ pc' = "nlml_tryA"
    /\ UNCHANGED <<config, out>>

\* 2*np.log(np.abs(np.diag(L))).sum()
CholeskyLogdet(L) == LTwice(LSum([i \in 1..Len(L.D) |-> LLogSqrt(L.D[i])], Len(L.D)))

nlml_TryA ==
    /\ pc = "nlml_tryA"
    /\ \E t \in {TryBlock(loc.A)} :
          IF t.ok
          THEN /\ path' = Append(path, Event("A", "cholesky", TRUE))
               /\ loc' = [loc EXCEPT !.A_inv = t.inv,
                                     !.logdet_A = CholeskyLogdet(t.L),
                                     !.KA = SchurComplement(t.inv, loc.B, loc.C)]
               /\ pc' = "nlml_tryKA"
          ELSE /\ path' = Append(path, Event("A", "cholesky", FALSE))
               /\ pc' = "nlml_exceptA"
               /\ UNCHANGED loc
    /\ UNCHANGED <<config, fn, kargs, out>>

nlml_ExceptA ==
    /\ pc = "nlml_exceptA"
    /\ \E e \in {ExceptBlock(loc.A)} :
          IF e.ok
          THEN /\ path' = Append(path, Event("A", "svd", TRUE))
               /\ loc' = [loc EXCEPT !.A_inv = e.inv,
                                     !.logdet_A = SvdLogSum(e.sv),
                                     !.KA = SchurComplement(e.inv, loc.B, loc.C)]
               /\ pc' = "nlml_tryKA"
               /\ UNCHANGED out
          ELSE /\ path' = Append(path, Event("A", "svd", FALSE))
               /\ pc' = "idle"
               /\ Raises("nlml")
               /\ UNCHANGED loc
    /\ UNCHANGED <<config, fn, kargs>>

\* return yKy + logdet_A + logdet_KA
nlml_formA_Return(KA_inv, logdet_KA, yKy) ==
    /\ loc' = [loc EXCEPT !.KA_inv = KA_inv, !.logdet_KA = logdet_KA, !.f = yKy]
    /\ Returns("nlml", LAdd(LAdd(LRat(yKy), loc.logdet_A), logdet_KA))

nlml_TryKA ==
    /\ pc = "nlml_tryKA"
    /\ \E t \in {TryBlock(loc.KA)} :
          IF t.ok
          THEN /\ path' = Append(path, Event("KA", "cholesky", TRUE))
               /\ nlml_formA_Return(t.inv, CholeskyLogdet(t.L), BlockQuad(loc.A_inv, loc.B, t.inv))
               /\ pc' = "idle"
          ELSE /\ path' = Append(path, Event("KA", "cholesky", FALSE))
               /\ pc' = "nlml_exceptKA"
               /\ UNCHANGED <<loc, out>>
    /\ UNCHANGED <<config, fn, kargs>>

nlml_ExceptKA ==
    /\ pc = "nlml_exceptKA"
    /\ \E e \in {ExceptBlock(loc.KA)} :
          IF e.ok
          THEN /\ path' = Append(path, Event("KA", "svd", TRUE))
               /\ nlml_formA_Return(e.inv, SvdLogSum(e.sv), BlockQuad(loc.A_inv, loc.B, e.inv))
          ELSE /\ path' = Append(path, Event("KA", "svd", FALSE))
               /\ Raises("nlml")
               /\ UNCHANGED loc
    /\ pc' = "idle"
    /\ UNCHANGED <<config, fn, kargs>>

(***************************************************************************)
(* Symbolic-gradient notebook: nlml_wp of minimize_restarts_CG substitutes *)
(* the optimizer's vector v for the symbols of nlml(sigma, l_x, l_y, phi,  *)
(* s) = log(det(K)) + y_con.T * K.inv() * y_con.  The kernels divide by    *)
(* l_x**2 and l_y**2, so a zero length-scale substitutes to nan; so does a *)
(* zero determinant; the log of a negative determinant is complex.         *)
(***************************************************************************)
nlml_wp_Value(v, Kmat, d) ==
    IF v[2] = 0 \/ v[3] = 0 \/ RIsZero(d) THEN [kind |-> "nan", val |-> Nil]
    ELSE IF ~RPos(d) THEN [kind |-> "complex", val |-> Nil]
    ELSE [kind |-> "value",
          val |-> LAdd(LLog(d), LRat(Quad(y_con, InverseBy(Kmat, d), y_con)))]

\* the locals l after a call of the symbolic nlml(sigma, l_x, l_y, phi, s):
\* sp.det(K(...)) on one symbolic K and K(...).inv() on a second one
nlml_sym(l) == [K_built(K_built(l)) EXCEPT !.sym_det = @ + 1, !.sym_inv = @ + 1]

nlml_wp ==
    /\ pc = "idle" /\ nb = "symbolic"
    /\ fn' = "nlml_wp"
    /\ kargs' = <<RInt(params[1]), RInt(params[2]), RInt(params[3]), RInt(params[4])>>
    /\ path' = <<>>
    /\ \E Kmat \in {K} :
          /\ loc' = nlml_sym(NoLocals)
          /\ out' = [out EXCEPT !["nlml_wp"] = nlml_wp_Value(params, Kmat, Det(Kmat))]
    /\ UNCHANGED <<config, pc>>

(***************************************************************************)
(* Optimizer runs: scipy.optimize.minimize (Nelder-Mead), the callbacks,   *)
(* minimize_restarts.  minimize is library code, modelled by its contract: *)
(* it calls the objective at points of its choice, calls the callback      *)
(* after each iteration, lets an exception of the objective through, and   *)
(* returns the best point it evaluated with a status (0 converged, 1       *)
(* maxfev reached, 2 maxiter reached).                                     *)
(***************************************************************************)
MaxRestarts == 2
MaxEvals == 2

\* notebooks that define minimize_restarts
RestartNotebooks == {"advection", "example3d"}

\* np.random.rand(k) and the points of the simplex
OptThetas(k) == {[i \in 1..k |-> v] : v \in (-MaxTheta)..MaxTheta}

\* kuu_fn, kfu_fn, kff_fn at a parameter vector: the values of the closed forms
\* at coinciding (or perturbed) points; they vanish elsewhere
closed_form(nbk, theta) ==
    LET v == IF nbk = "matern"
             THEN (IF theta[1] < 0 THEN <<0, 0, 0>>
                   ELSE IF theta[1] = 0 THEN <<1, 0, 1>> ELSE <<1, 1, 0>>)
             ELSE (IF theta[1] < 0 THEN <<0, 1, 0>>
                   ELSE IF theta[1] = 0 THEN <<0, 0, 0>> ELSE <<0, 1, 1>>)
        tab(c) == [k \in DKeys |-> IF k \in {ZeroKey, PertKey} THEN c ELSE 0]
    IN  [uu |-> tab(v[1]), fu |-> tab(v[2]), ff |-> tab(v[3])]

\* a <= b for floats r + ln(h)/2; pairs that need the value of a logarithm to
\* be compared do not occur with the closed forms above
LLeq(a, b) ==
    IF a[2] = b[2] THEN RSub(a[1], b[1])[1] <= 0
    ELSE IF a[1] = b[1] THEN RSub(a[2], b[2])[1] <= 0
    ELSE CHOOSE c \in BOOLEAN : c = (RSub(a[1], b[1])[1] <= 0) /\ c = (RSub(a[2], b[2])[1] <= 0)

\* variant that returns the first result
min_by_fun_First(rs) == rs[1]
\* min(rs, key=lambda x: x.fun): the first element no other element is below
min_by_fun(rs) ==
    rs[CHOOSE i \in 1..Len(rs) : \A j \in 1..Len(rs) :
          /\ LLeq(rs[i].fun, rs[j].fun)
          /\ j < i => ~LLeq(rs[j].fun, rs[i].fun)]

\* minimize calls fun(theta): the closed forms are evaluated at theta
fun_Call(theta) ==
    /\ pc = "idle"
    /\ params' = theta
    /\ kuu_fn' = closed_form(nb, theta).uu
    /\ kfu_fn' = closed_form(nb, theta).fu
    /\ kff_fn' = closed_form(nb, theta).ff
    /\ fn' = "none"
    /\ UNCHANGED <<nb, n, x, y, y_u, y_f, s, dk_fn, pc, kargs, loc, path, out, Nfeval>>

\* def minimize_restarts(x,y,y_u,y_f,n): all_results = []
minimize_restarts_Call ==
    /\ nb \in RestartNotebooks
    /\ opt.pc \in {"idle", "returned", "raised"}
    /\ \E m \in 1..MaxRestarts : opt' = [NoRun EXCEPT !.pc = "loop", !.n = m]
    /\ UNCHANGED <<nb, n, x, y, y_u, y_f, s, kuu_fn, kfu_fn, kff_fn, dk_fn, params,
                   pc, fn, kargs, loc, path, out, Nfeval>>

\* opt.minimize(nlml, np.random.rand(k), callback=..., method="Nelder-Mead"):
\* inside the loop of minimize_restarts (it counts the runs appended), or the
\* cell of the Matern notebook (it counts the times the cell was run)
minimize_Start ==
    /\ IF nb \in RestartNotebooks THEN opt.pc = "loop" /\ opt.it < opt.n
       ELSE opt.pc \in {"idle", "done", "raised"} /\ opt.it < MaxRestarts
    /\ \E theta \in OptThetas(ParamCount(nb)) : fun_Call(theta)
    /\ opt' = [opt EXCEPT !.pc = "fun", !.evals = <<>>, !.nit = 0,
                         !.it = IF nb \in RestartNotebooks THEN @ ELSE @ + 1]

\* the objective has returned to minimize, or raised through it
minimize_Observe ==
    /\ opt.pc = "fun" /\ pc = "idle" /\ fn = "nlml"
    /\ opt' = IF out["nlml"].kind = "raised" THEN [opt EXCEPT !.pc = "raised"]
              ELSE [opt EXCEPT !.pc = "iter",
                               !.evals = Append(@, [x |-> params, fun |-> out["nlml"].val])]
    /\ UNCHANGED <<nb, n, x, y, y_u, y_f, s, kuu_fn, kfu_fn, kff_fn, dk_fn, params,
                   pc, fn, kargs, loc, path, out, Nfeval>>

\* callbackF(Xi) of the Matern notebook: global Nfeval; print; Nfeval += 1.
\* callbackf of the other notebooks only prints.
callbackF ==
    /\ opt.pc = "iter"
    /\ Nfeval' = IF nb = "matern" THEN Nfeval + 1 ELSE Nfeval
    /\ opt' = [opt EXCEPT !.pc = "step", !.nit = @ + 1]
    /\ UNCHANGED <<nb, n, x, y, y_u, y_f, s, kuu_fn, kfu_fn, kff_fn, dk_fn, params,
                   pc, fn, kargs, loc, path, out>>

\* the next point of the simplex
minimize_Propose ==
    /\ opt.pc = "step" /\ Len(opt.evals) < MaxEvals
    /\ \E theta \in OptThetas(ParamCount(nb)) : fun_Call(theta)
    /\ opt' = [opt EXCEPT !.pc = "fun"]

\* minimize returns its OptimizeResult; minimize_restarts appends it
minimize_Finish ==
    /\ opt.pc = "step"
    /\ \E status \in 0..2 : \E best \in {min_by_fun(opt.evals)} :
          \E res \in {[x |-> best.x, fun |-> best.fun, status |-> status, nit |-> opt.nit]} :
             opt' = IF nb \in RestartNotebooks
                    THEN [opt EXCEPT !.pc = "loop", !.it = @ + 1,
                                     !.all_results = Append(@, res)]
                    ELSE [opt EXCEPT !.pc = "done", !.result = res]
    /\ UNCHANGED <<nb, n, x, y, y_u, y_f, s, kuu_fn, kfu_fn, kff_fn, dk_fn, params,
                   pc, fn, kargs, loc, path, out, Nfeval>>

\* return min(all_results, key=lambda x: x.fun)
minimize_restarts_Return ==
    /\ nb \in RestartNotebooks
    /\ opt.pc = "loop" /\ opt.it = opt.n
    /\ opt' = [opt EXCEPT !.pc = "returned", !.result = min_by_fun(opt.all_results)]
    /\ UNCHANGED <<nb, n, x, y, y_u, y_f, s, kuu_fn, kfu_fn, kff_fn, dk_fn, params,
                   pc, fn, kargs, loc, path, out, Nfeval>>

\* a notebook about to optimize: closed forms evaluated at some parameter vector
InitOpt ==
    /\ \E nbk \in RestartNotebooks \cup {"matern"}, m \in 1..MaxSamples :
          /\ Configured(nbk, m)
          /\ \E theta \in OptThetas(ParamCount(nbk)) :
                /\ params = theta
                /\ kuu_fn = closed_form(nbk, theta).uu
                /\ kfu_fn = closed_form(nbk, theta).fu
                /\ kff_fn = closed_form(nbk, theta).ff
    /\ dk_fn = NoDeriv
    /\ Fresh

(***************************************************************************)
(* nlml(params, x, y, y1, y2, s) and nlml_svd called with arrays of any    *)
(* lengths: no function of the notebooks compares x.size, y.size, y1.size  *)
(* and y2.size.                                                            *)
(***************************************************************************)
InitArgs ==
    /\ \E m \in 1..MaxSamples : \E ky, ku, kf \in (m - 1)..(m + 1) :
          LET d == simulate_data("svd_cmp", m)
              resized(a, k) == IF k <= Len(a) THEN SubSeq(a, 1, k) ELSE Append(a, a[1])
          IN  /\ nb = "svd_cmp" /\ n = m /\ s = NoiseOf("svd_cmp")
              /\ x = d.x
              /\ y = resized(d.y, ky)
              /\ y_u = resized(d.y_u, ku)
              /\ y_f = resized(d.y_f, kf)
              /\ AnyKernels("svd_cmp", m)
    /\ dk_fn = NoDeriv
    /\ Fresh

(***************************************************************************)
(* Symbolic-gradient notebook: adams and minimize_restarts_adam.  The      *)
(* update divides by a square root, so a parameter vector is kept as its   *)
(* starting point together with the (v_hat, grad_sq_hat) of every update   *)
(* applied to it:                                                          *)
(*   params = init - eta * sum of np.divide(v_hat, np.sqrt(grad_sq_hat +   *)
(*            epsilon)).                                                   *)
(* With gamma=0.9 and beta=0.99 the moments are decimal fractions: after j *)
(* passes v is kept as the vector of its numerators over 10^j and grad_sq  *)
(* as the vector of its numerators over 100^j.  The values grad(params)    *)
(* returns are inputs of adams, on an integer grid.                        *)
(***************************************************************************)
MaxEpochs == 2

RECURSIVE IntPow(_, _)
IntPow(b, k) == IF k = 0 THEN 1 ELSE b * IntPow(b, k - 1)

\* a vector of four zeros
VecZero == <<0, 0, 0, 0>>
\* the fractions u[i] / d
VecOver(u, d) == <<<<u[1], d>>, <<u[2], d>>, <<u[3], d>>, <<u[4], d>>>>

\* np.random.rand(4)
AdamStarts == {VecOver(<<1, 1, 1, 1>>, 2), VecOver(<<1, 2, 3, 4>>, 5)}
\* the gradients grad(params) returns
AdamGrads == {VecZero, <<-1, 0, 1, 2>>}

\* a parameter vector that no update has touched
AdamPoint(init) == [init |-> init, upd |-> <<>>]

\* minimize_restarts_adam not called yet; n_epochs is the default of adams
AdamNoRun(epochs) ==
    [pc |-> "idle", n |-> 0, it |-> 0, all_results |-> <<>>, n_epochs |-> epochs,
     params |-> Nil, param_traj |-> <<>>, v |-> VecZero, grad_sq |-> VecZero, j |-> 0,
     result |-> Nil]

\* def minimize_restarts_adam(n=10): all_results = []
minimize_restarts_adam_Call ==
    /\ nb = "symbolic" /\ opt.pc = "idle"
    /\ \E m \in 0..MaxRestarts : opt' = [opt EXCEPT !.pc = "loop", !.n = m]
    /\ UNCHANGED <<nb, n, x, y, y_u, y_f, s, kuu_fn, kfu_fn, kff_fn, dk_fn, params,
                   pc, fn, kargs, loc, path, out, Nfeval>>

\* adams(grad_nlml, np.random.rand(4)): params=np.array(init);
\* param_traj=np.zeros([n_epochs+1,4]); param_traj[0,]=init; v=0; grad_sq=0
adams_Call ==
    /\ opt.pc = "loop" /\ opt.it < opt.n
    /\ \E init \in AdamStarts :
          opt' = [opt EXCEPT !.pc = "epoch",
                             !.params = AdamPoint(init),
                             !.param_traj = [r \in 1..(opt.n_epochs + 1) |->
                                                IF r = 1 THEN AdamPoint(init)
                                                ELSE AdamPoint(VecOver(VecZero, 1))],
                             !.v = VecZero, !.grad_sq = VecZero, !.j = 0]
    /\ UNCHANGED <<nb, n, x, y, y_u, y_f, s, kuu_fn, kfu_fn, kff_fn, dk_fn, params,
                   pc, fn, kargs, loc, path, out, Nfeval>>

\* v=gamma*v+(1-gamma)*g, over 10^(j+1)
adams_v(v, g, j) ==
    <<9 * v[1] + IntPow(10, j) * g[1], 9 * v[2] + IntPow(10, j) * g[2],
      9 * v[3] + IntPow(10, j) * g[3], 9 * v[4] + IntPow(10, j) * g[4]>>
\* grad_sq=beta*grad_sq+(1-beta)*g*g, over 100^(j+1)
adams_grad_sq(grad_sq, g, j) ==
    <<99 * grad_sq[1] + IntPow(100, j) * g[1] * g[1],
      99 * grad_sq[2] + IntPow(100, j) * g[2] * g[2],
      99 * grad_sq[3] + IntPow(100, j) * g[3] * g[3],
      99 * grad_sq[4] + IntPow(100, j) * g[4] * g[4]>>
\* v_hat=v/(1-gamma); grad_sq_hat=grad_sq/(1-beta);
\* params=params-eta*np.divide(v_hat,np.sqrt(grad_sq_hat+epsilon))
adams_params(p, v, grad_sq, j) ==
    [p EXCEPT !.upd = Append(@, [v_hat |-> VecOver(v, IntPow(10, j)),
                                 grad_sq_hat |-> VecOver(grad_sq, IntPow(100, j))])]

\* variant that stores the new parameters in row j
adams_Update_RowJ(o, g) ==
    [o EXCEPT !.v = adams_v(o.v, g, o.j),
              !.grad_sq = adams_grad_sq(o.grad_sq, g, o.j),
              !.params = adams_params(o.params, adams_v(o.v, g, o.j),
                                      adams_grad_sq(o.grad_sq, g, o.j), o.j),
              !.param_traj[o.j + 1] = adams_params(o.params, adams_v(o.v, g, o.j),
                                                   adams_grad_sq(o.grad_sq, g, o.j), o.j),
              !.j = o.j + 1]
\* one pass of the loop body with g = np.array(grad(params)) + noise
\* (noise_strength=0); param_traj[j+1,]=params
adams_Update(o, g) ==
    [o EXCEPT !.v = adams_v(o.v, g, o.j),
              !.grad_sq = adams_grad_sq(o.grad_sq, g, o.j),
              !.params = adams_params(o.params, adams_v(o.v, g, o.j),
                                      adams_grad_sq(o.grad_sq, g, o.j), o.j),
              !.param_traj[o.j + 2] = adams_params(o.params, adams_v(o.v, g, o.j),
                                                   adams_grad_sq(o.grad_sq, g, o.j), o.j),
              !.j = o.j + 1]

\* for j in range(n_epochs): ...
adams_Epoch ==
    /\ opt.pc = "epoch" /\ opt.j < opt.n_epochs
    /\ \E g \in AdamGrads : opt' = adams_Update(opt, g)
    /\ UNCHANGED <<nb, n, x, y, y_u, y_f, s, kuu_fn, kfu_fn, kff_fn, dk_fn, params,
                   pc, fn, kargs, loc, path, out, Nfeval>>

\* return param_traj; all_results.append(...)
adams_Return ==
    /\ opt.pc = "epoch" /\ opt.j = opt.n_epochs
    /\ opt' = [opt EXCEPT !.pc = "loop", !.it = @ + 1,
                         !.all_results = Append(@, opt.param_traj)]
    /\ UNCHANGED <<nb, n, x, y, y_u, y_f, s, kuu_fn, kfu_fn, kff_fn, dk_fn, params,
                   pc, fn, kargs, loc, path, out, Nfeval>>

\* return all_results
minimize_restarts_adam_Return ==
    /\ nb = "symbolic" /\ opt.pc = "loop" /\ opt.it = opt.n
    /\ opt' = [opt EXCEPT !.pc = "returned", !.result = opt.all_results]
    /\ UNCHANGED <<nb, n, x, y, y_u, y_f, s, kuu_fn, kfu_fn, kff_fn, dk_fn, params,
                   pc, fn, kargs, loc, path, out, Nfeval>>

\* the symbolic-gradient notebook before the cell m = minimize_restarts_adam(2)
InitAdam ==
    /\ Configured("symbolic", MaxSamples)
    /\ kuu_fn = DiagTable /\ kfu_fn = ZeroTable /\ kff_fn = DiagTable
    /\ params = Theta0(ParamCount("symbolic"))
    /\ dk_fn = NoDeriv
    /\ \E epochs \in 0..MaxEpochs : opt = AdamNoRun(epochs)
    /\ Nfeval = 1 /\ pc = "idle" /\ fn = "none" /\ kargs = <<>>
    /\ loc = NoLocals /\ path = <<>> /\ out = [g \in Functions |-> NoOutcome]

(***************************************************************************)
(* Properties                                                              *)
(***************************************************************************)
\* the matrix a solver stage factors and the inverse the stage stored
StageMatrix(st) == IF st = "K" THEN loc.K ELSE IF st = "A" THEN loc.A ELSE loc.KA
StageInverse(st) ==
    IF st = "K" THEN loc.K_inv ELSE IF st = "A" THEN loc.A_inv ELSE loc.KA_inv
\* the positions at which the except block of a stage is about to run
ExceptPcs(st) ==
    IF st = "K" THEN {"nlml_except", "kid_except"}
    ELSE IF st = "A" THEN {"blk_exceptA", "grad_exceptA", "nlml_exceptA"}
    ELSE {"blk_exceptKA", "grad_exceptKA", "nlml_exceptKA"}
\* sum of log|L_ii| over the diagonal of a Cholesky factor
SumLogDiag(L) == LSum([i \in 1..Len(L.D) |-> LLogSqrt(L.D[i])], Len(L.D))

\* what a try block that succeeded on stage st leaves behind: the inverse
\* through the factor L and the determinant quantity computed from L
CholeskyDerived(st, L) ==
    /\ StageInverse(st) = GramT(solve_triangular(L))
    /\ (nb = "pde1" /\ fn = "nlml") =>
          out["nlml"].val = Det(MatScale(loc.f, LLt(L)))
    /\ (nb = "pde1" /\ fn = "nlml_block" /\ st = "A") => loc.det_A = RProd(L.D, Len(L.D))
    /\ (nb = "pde1" /\ fn = "nlml_block" /\ st = "KA") => loc.det_KA = RProd(L.D, Len(L.D))
    /\ nb = "advection" => loc.log_sum = SumLogDiag(L)
    /\ (nb \in {"example3d", "matern"} /\ st = "A") => loc.logdet_A = LTwice(SumLogDiag(L))
    /\ (nb \in {"example3d", "matern"} /\ st = "KA") => loc.logdet_KA = LTwice(SumLogDiag(L))

\* C1: in every two-tier solver (whole-matrix nlml / K_inv_and_det and both
\* inversions of the block objectives) Cholesky is attempted first, the SVD
\* runs if and only if that Cholesky attempt failed, and after a successful
\* Cholesky the inverse and determinant kept are the Cholesky-derived ones.
C1_CholeskyFirstSvdIffFailed ==
    fn # "nlml_svd" =>
        /\ path # <<>> => path[1].op = "cholesky"
        /\ \A i \in 1..Len(path) :
              /\ path[i].op = "svd" =>
                    i > 1 /\ path[i - 1] = Event(path[i].stage, "cholesky", FALSE)
              /\ (path[i].op = "cholesky" /\ ~path[i].ok) =>
                    IF i = Len(path) THEN pc \in ExceptPcs(path[i].stage)
                    ELSE path[i + 1].op = "svd" /\ path[i + 1].stage = path[i].stage
              /\ (path[i].op = "cholesky" /\ path[i].ok) =>
                    /\ cholesky(StageMatrix(path[i].stage)).ok
                    /\ CholeskyDerived(path[i].stage, cholesky(StageMatrix(path[i].stage)))
        /\ \A st \in {"K", "A", "KA"} :
              pc \in ExceptPcs(st) =>
                  path # <<>> /\ path[Len(path)] = Event(st, "cholesky", FALSE)

\* a block objective whose first inversion went through Cholesky and whose
\* second inversion fell back to the SVD
C1_Witness ==
    /\ nb = "example3d" /\ pc = "idle" /\ out["nlml"].kind = "value"
    /\ path = <<Event("A", "cholesky", TRUE), Event("KA", "cholesky", FALSE),
                Event("KA", "svd", TRUE)>>

\* C2: when Cholesky fails and the SVD fallback fails too (singular matrix),
\* the objective returns a sentinel value and no exception leaves the call.
C2_SentinelOnDoubleFailure ==
    (/\ pc = "idle" /\ Len(path) >= 2
     /\ path[Len(path)].op = "svd" /\ ~path[Len(path)].ok
     /\ path[Len(path) - 1].op = "cholesky" /\ ~path[Len(path) - 1].ok)
        => out[fn].kind = "value"

\* C3: the whole-matrix K_inv_and_det returns log det K on both paths.
C3_LogDetOnBothPaths ==
    (nb = "advection" /\ pc = "idle" /\ out["nlml"].kind = "value")
        => loc.log_sum = LLog(RAbs(Det(loc.K)))

\* form A: log det K + y^T K^{-1} y
FormA(M, v) == LAdd(LLog(RAbs(Det(M))), LRat(Quad(v, Inverse(M), v)))

\* C4: every form-A objective returns exactly log det K + y^T K^{-1} y, the
\* plain nlml of the SVD-comparison and contour notebooks as well as nlml_svd,
\* so nlml and nlml_svd return the same value.
C4_FormAValue ==
    nb \in {"svd_cmp", "contour"} =>
        /\ out["nlml"].kind = "value" => out["nlml"].val = FormA(K, y_con)
        /\ out["nlml_svd"].kind = "value" => out["nlml_svd"].val = FormA(K, y_con)
        /\ (out["nlml"].kind # "none" /\ out["nlml_svd"].kind # "none")
              => out["nlml"] = out["nlml_svd"]

\* C5: block (Schur complement) and whole-matrix evaluation agree: the
\* assembled block inverse is K^{-1}, det A * det S = det K, and nlml_block
\* returns what nlml returns.
C5_BlockAgreesWithWhole ==
    nb = "pde1" =>
        /\ (fn = "grad_nlml" /\ pc = "idle" /\ out["grad_nlml"].kind = "value") =>
              /\ loc.K_inv = Inverse(K)
              /\ RMul(Det(loc.A), Det(loc.KA)) = Det(K)
        /\ (out["nlml"].kind # "none" /\ out["nlml_block"].kind # "none")
              => out["nlml"] = out["nlml_block"]

\* C6: in every K built by K(...) and in every block objective the fu block
\* is the exact transpose of the uf block, so K is symmetric.
C6_CrossBlocksTransposed ==
    /\ loc.K # Nil =>
          /\ \A i, j \in 1..n : loc.K[i][n + j] = loc.K[n + j][i]
          /\ loc.K = Transpose(loc.K)
    /\ loc.B # Nil => \A i, j \in 1..n : loc.B[i][j] = kfu[j][i]

\* a K was built from a kfu evaluation that is not symmetric
C6_Witness ==
    /\ loc.K # Nil /\ n = MaxSamples
    /\ kfu[1][2] # kfu[2][1]

\* the kernel value at entry (i, j) of the joint matrix, without noise
BareEntry(i, j) ==
    IF i <= n /\ j <= n THEN kuu[i][j]
    ELSE IF i <= n THEN kfu[j - n][i]
    ELSE IF j <= n THEN kfu[i - n][j]
    ELSE kff[i - n][j - n]

\* C7: building K adds s to exactly the 2n main-diagonal entries; every other
\* entry is the bare kernel value.
C7_NoiseOnDiagonalOnly ==
    /\ loc.K # Nil =>
          \A i, j \in 1..(2 * n) :
              loc.K[i][j] = IF i = j THEN RAdd(BareEntry(i, j), s) ELSE BareEntry(i, j)
    /\ loc.A # Nil =>
          \A i, j \in 1..n :
              /\ loc.A[i][j] = IF i = j THEN RAdd(kuu[i][j], s) ELSE kuu[i][j]
              /\ loc.C[i][j] = IF i = j THEN RAdd(kff[i][j], s) ELSE kff[i][j]
              /\ loc.B[i][j] = kfu[j][i]

\* a K and an (A, B, C) were built with positive noise and off-diagonal entries
C7_Witness ==
    /\ n = MaxSamples /\ RPos(s)
    /\ loc.K # Nil \/ loc.A # Nil
    /\ nb \in {"pde1", "advection"}

\* C8: in every notebook configuration the noise s is strictly positive, so
\* no evaluation factors a joint covariance matrix without regularization.
C8_NoisePositive == (loc.K # Nil \/ loc.A # Nil) => RPos(s)

\* how many leading entries of a notebook's parameter vector are the signal
\* variance and the length-scales; the rest are PDE coefficients
ScaleCount(nbk) ==
    IF nbk = "pde1" THEN 2 ELSE IF nbk \in {"advection", "example3d"} THEN 4 ELSE 3

\* C9: every objective exponentiates the variance and length-scale entries
\* before any kernel evaluation, so the kernels receive strictly positive
\* values, and passes the PDE coefficients unchanged.
C9_KernelsReceivePositiveScales ==
    \A i \in 1..Len(kargs) :
        IF i <= ScaleCount(nb) THEN RPos(kargs[i]) ELSE kargs[i] = RInt(params[i])

\* a vector and a matrix written out as tuples, entry by entry
RECURSIVE Entries(_, _)
Entries(f, m) == IF m = 0 THEN <<>> ELSE Append(Entries(f, m - 1), f[m])
RECURSIVE Rows(_, _)
Rows(M, m) == IF m = 0 THEN <<>> ELSE Append(Rows(M, m - 1), Entries(M[m], Len(M[m])))
Dense(M) == Rows(M, Len(M))

\* the derivative of K with respect to hyperparameter h, block by block
dK_blocks(h) ==
    Block([i \in 1..n |-> [j \in 1..n |-> KernelValue(dk_fn[h].uu, x[i], x[j], y[i], y[j])]],
          Transpose([i \in 1..n |-> [j \in 1..n |->
                        KernelValue(dk_fn[h].fu, x[i], x[j], y[i], y[j])]]),
          [i \in 1..n |-> [j \in 1..n |-> KernelValue(dk_fn[h].fu, x[i], x[j], y[i], y[j])]],
          [i \in 1..n |-> [j \in 1..n |-> KernelValue(dk_fn[h].ff, x[i], x[j], y[i], y[j])]])

dK_of(h) == Dense(dK_blocks(h))

\* form B: det((v^T M^{-1} v) M)
FormB(M, v) == Det(MatScale(Quad(v, Inverse(M), v), M))

\* val * [tr(M^{-1} dM) - 2n (w^T dM w) / (v^T w)] with w = M^{-1} v
TraceFormula(val, Mi, dM, v, w) ==
    RMul(val, RSub(Trace(MatMul(Mi, dM)),
                   RDiv(RMul(RInt(Len(dM)), Quad(w, dM, w)), Dot(v, w))))

\* The derivative of form B computed without any inverse.  The determinant is
\* linear in each row, so d det M = sum over r of det(M with row r replaced by
\* row r of dM).  With the bordered matrix [[M, v], [v^T, 0]], whose
\* determinant is -(v^T M^{-1} v) det M, the quadratic form is the quotient
\* f = N / D of two determinants, and
\*   d(f^m D) = m f^(m-1) ((dN D - N dD) / D^2) D + f^m dD,  m = Len(M).
ReplaceRow(M, r, row) == [i \in 1..Len(M) |-> IF i = r THEN row ELSE M[i]]
DetDeriv(M, dM) ==
    RSum([r \in 1..Len(M) |-> Det(ReplaceRow(M, r, dM[r]))], Len(M))
Bordered(M, v) ==
    [i \in 1..(Len(M) + 1) |-> [j \in 1..(Len(M) + 1) |->
        IF i <= Len(M) /\ j <= Len(M) THEN M[i][j]
        ELSE IF i <= Len(M) THEN v[i]
        ELSE IF j <= Len(M) THEN v[j]
        ELSE RZero]]
ZeroVector(m) == [i \in 1..m |-> RZero]
FormBDerivBy(m, D, dD, N, dN) ==
    RAdd(RMul(RMul(RInt(m), RPow(RDiv(N, D), m - 1)),
              RDiv(RSub(RMul(dN, D), RMul(N, dD)), D)),
         RMul(RPow(RDiv(N, D), m), dD))
FormBDeriv(M, dM, v, D, N) ==
    FormBDerivBy(Len(M), D, DetDeriv(M, dM), N,
                 RNeg(DetDeriv(Dense(Bordered(M, v)), Dense(Bordered(dM, ZeroVector(Len(M)))))))

\* both readings of a gradient g of form B at (M, v)
GradientAgrees(g, M, v, val, Mi, w, D, N) ==
    \A h \in 1..3 :
        /\ g[h] = TraceFormula(val, Mi, dK_of(h), v, w)
        /\ g[h] = FormBDeriv(M, dK_of(h), v, D, N)
GradientAgreesAt(g, M, v, Mi) ==
    GradientAgrees(g, M, v, FormB(M, v), Mi, MatVec(Mi, v), Det(M),
                   RNeg(Det(Dense(Bordered(M, v)))))

C11_GradNlmlChainRule ==
    (fn = "grad_nlml" /\ pc = "idle" /\ out["grad_nlml"].kind = "value") =>
        /\ kargs = <<Exp(params[1]), Exp(params[2]), RInt(params[3])>>
        /\ DOMAIN out["grad_nlml"].val = DOMAIN params
        /\ \A i \in 1..2 :
              out["grad_nlml"].val[i] =
                  IF IsNaN(loc.grad[i]) THEN NaN ELSE RMul(loc.grad[i], Exp(params[i]))
        /\ out["grad_nlml"].val[3] = loc.grad[3]

\* a gradient was returned whose two log-space components are nonzero and
\* whose two chain-rule factors differ from 1 and from each other
C11_Witness ==
    /\ fn = "grad_nlml" /\ pc = "idle" /\ out["grad_nlml"].kind = "value"
    /\ \A i \in 1..3 : ~IsNaN(loc.grad[i])
    /\ ~RIsZero(loc.grad[1]) /\ ~RIsZero(loc.grad[2]) /\ ~RIsZero(loc.grad[3])
    /\ Exp(params[1]) # ROne /\ Exp(params[2]) # ROne /\ Exp(params[1]) # Exp(params[2])

\* C13: an objective or gradient evaluation leaves the sample coordinates x and
\* y, the observed values y_u and y_f, the sample count n and the noise s
\* unchanged: every step of every evaluation keeps them.
C13_EvaluationLeavesDataUnchanged ==
    [][x' = x /\ y' = y /\ y_u' = y_u /\ y_f' = y_f /\ n' = n /\ s' = s]_vars

\* nlml_svd, which binds the names s and y inside its body, has returned and
\* the module-level data are those of the construction
C13_Witness ==
    /\ nb = "svd_cmp" /\ fn = "nlml_svd" /\ out["nlml_svd"].kind = "value"
    /\ loc.log_sum # Nil
    /\ s = NoiseOf(nb)
    /\ x = simulate_data(nb, n).x /\ y = simulate_data(nb, n).y
    /\ y_u = simulate_data(nb, n).y_u /\ y_f = simulate_data(nb, n).y_f

\* C16: on the SVD path a zero singular value is reported as a failure before
\* its logarithm or reciprocal is taken, so no evaluation ever holds an
\* infinite log-determinant: every logarithm sum an evaluation has computed is
\* finite.
C16_NoInfiniteLogDeterminant ==
    \A f \in {"log_sum", "logdet_A", "logdet_KA"} :
        loc[f] # Nil => ~RIsZero(loc[f][2])

\* C19: in the Matern notebook the coordinate perturbation corr_nan enters kff
\* and kfu at exactly the entries with i = j; every entry with i # j is the
\* closed form at the unperturbed coordinates of points i and j; kuf and the
\* block B of the objective hold the entries of kfu transposed.
C19_MaternPerturbsDiagonalOnly ==
    (nb = "matern" /\ fn = "nlml" /\ loc.B # Nil /\ loc.C # Nil) =>
        \A i, j \in 1..n :
            /\ i = j =>
                  /\ loc.C[i][j] =
                        RAdd(KernelValue(kff_fn, x[i], x[i] + corr_nan, y[i], y[i] + corr_nan), s)
                  /\ kfu[i][j] =
                        KernelValue(kfu_fn, x[i], x[i] + corr_nan, y[i], y[i] + corr_nan)
            /\ i # j =>
                  /\ loc.C[i][j] = KernelValue(kff_fn, x[i], x[j], y[i], y[j])
                  /\ kfu[i][j] = KernelValue(kfu_fn, x[i], x[j], y[i], y[j])
            /\ kuf[j][i] = kfu[i][j]
            /\ loc.B[j][i] = kfu[i][j]

\* two samples, closed forms that tell the perturbed point from the others, and
\* a cross kernel that is not symmetric
C19_Witness ==
    /\ nb = "matern" /\ fn = "nlml" /\ loc.B # Nil /\ loc.C # Nil
    /\ n = 2
    /\ kff_fn[PertKey] # kff_fn[Diff(x[1], x[2], y[1], y[2])]
    /\ kfu_fn[PertKey] # kfu_fn[Diff(x[1], x[2], y[1], y[2])]
    /\ kfu_fn[Diff(x[1], x[2], y[1], y[2])] # kfu_fn[Diff(x[2], x[1], y[2], y[1])]

\* C20: during one objective evaluation the loop of kfu runs exactly once, the
\* other cross block being the transpose of its result, on the Cholesky path
\* and on the SVD path alike.
C20_CrossKernelEvaluatedOnce ==
    (fn \in {"nlml", "nlml_block", "nlml_svd"} /\ pc = "idle") => loc.kfu_runs = 1

\* the evaluations the optimizer has on record: points and objective values of
\* the run in progress and of the runs appended to all_results
Recorded ==
    {<<opt.evals[i].x, opt.evals[i].fun>> : i \in 1..Len(opt.evals)}
        \cup {<<opt.all_results[i].x, opt.all_results[i].fun>> : i \in 1..Len(opt.all_results)}

\* C12: two evaluations of the objective at the same parameter vector with the
\* same sample data return identical values, whatever was evaluated in
\* between: any two recorded evaluations at equal points have equal values.
C12_SamePointSameValue ==
    \A a, b \in Recorded : a[1] = b[1] => a[2] = b[2]

\* a point evaluated in an earlier run, then another point with another value,
\* then the first point again
C12_Witness ==
    /\ Len(opt.all_results) >= 1 /\ Len(opt.evals) = 2
    /\ opt.all_results[1].nit = 1
    /\ opt.evals[1].x # opt.all_results[1].x
    /\ opt.evals[1].fun # opt.all_results[1].fun
    /\ opt.evals[2].x = opt.all_results[1].x

\* C14: a restart for which the optimizer reports failure or non-convergence
\* is never returned as the overall result of minimize_restarts: the result
\* returned has status 0.
C14_FailedRestartNeverReturned ==
    opt.pc = "returned" => opt.result.status = 0

\* C15: minimize_restarts runs exactly the requested number of restarts, and
\* the result it returns is the result of one of those runs whose objective
\* value is less than or equal to that of every other run.
C15_BestOfRequestedRestarts ==
    /\ nb \in RestartNotebooks => opt.it <= opt.n /\ Len(opt.all_results) = opt.it
    /\ opt.pc = "returned" =>
          /\ Len(opt.all_results) = opt.n
          /\ \E i \in 1..opt.n : opt.result = opt.all_results[i]
          /\ \A j \in 1..opt.n : LLeq(opt.result.fun, opt.all_results[j].fun)

\* two restarts requested, and the second run reached the lower value
C15_Witness ==
    /\ opt.pc = "returned" /\ opt.n = 2
    /\ ~LLeq(opt.all_results[1].fun, opt.all_results[2].fun)
    /\ opt.result = opt.all_results[2]

\* C18: the per-iteration callback updates no counter shared between
\* optimizer runs: what a run finds in Nfeval and leaves in it are the
\* iterations of that run alone.
C18_CounterOwnedByRun ==
    (nb = "matern" /\ opt.pc \in {"fun", "iter", "step", "done"}) =>
        Nfeval = 1 + opt.nit

\* C17: coordinate and value arrays of unequal length are rejected before any
\* kernel or objective evaluation: an objective value is only ever computed
\* from arrays of one common length.
C17_NoValueFromUnequalLengths ==
    (out["nlml"].kind = "value" \/ out["nlml_svd"].kind = "value") =>
        /\ Len(y) = Len(x)
        /\ Len(y_u) = Len(x)
        /\ Len(y_f) = Len(x)

\* the quadratic form in which entry i of y_u meets row and column i of M and
\* entry i of y_f meets row and column n + i
PairedQuad(M) ==
    RSum([i \in 1..n |->
            RSum([j \in 1..n |->
                    RAdd(RAdd(RMul(RMul(y_u[i], M[i][j]), y_u[j]),
                              RMul(RMul(y_u[i], M[i][n + j]), y_f[j])),
                         RAdd(RMul(RMul(y_f[i], M[n + i][j]), y_u[j]),
                              RMul(RMul(y_f[i], M[n + i][n + j]), y_f[j])))], n)], n)

\* C22: the observation vector of the quadratic form is the u-type values
\* followed by the f-type values, matching the block order of K; in the block
\* objectives y_u multiplies the top-left block of the inverse and y_f the
\* inverse Schur complement.
C22_ObservationsFollowBlockOrder ==
    /\ \A i \in 1..n : y_con[i] = y_u[i] /\ y_con[n + i] = y_f[i]
    /\ (nb = "pde1" /\ fn = "nlml" /\ pc = "idle" /\ out["nlml"].kind = "value") =>
          loc.f = PairedQuad(loc.K_inv)
    /\ (nb = "advection" /\ fn = "nlml" /\ pc = "idle" /\ out["nlml"].kind = "value") =>
          out["nlml"].val = LAdd(loc.log_sum, LRat(PairedQuad(loc.K_inv)))
    /\ (nb \in {"pde1", "example3d", "matern"} /\ fn \in {"nlml_block", "nlml"}
            /\ pc = "idle" /\ out[fn].kind = "value" /\ loc.KA_inv # Nil) =>
          loc.f = PairedQuad(BlockInverse(loc.A_inv, loc.B, loc.KA_inv))

\* the whole-matrix objective has returned on data for which the order matters
C22_Witness ==
    /\ nb = "advection" /\ fn = "nlml" /\ pc = "idle" /\ out["nlml"].kind = "value"
    /\ n = 2
    /\ PairedQuad(loc.K_inv) # Quad(Concat(y_f, y_u), loc.K_inv, Concat(y_f, y_u))

\* M is symmetric
IsSymmetric(M) == \A i \in 1..Len(M) : \A j \in 1..Len(M) : M[i][j] = M[j][i]
\* L L^T = M, L_inv solves L X = I, and Minv = L_inv^T L_inv inverts M
CholeskyInverts(M, L, Li, Minv) ==
    /\ L.ok
    /\ Dense(LLt(L)) = M
    /\ Dense(MatMul(L.U, Li.X)) = Dense(Identity(Len(M)))
    /\ Li.D = L.D
    /\ Minv = Dense(GramT(Li))
    /\ Dense(MatMul(M, Minv)) = Dense(Identity(Len(M)))
    /\ Dense(MatMul(Minv, M)) = Dense(Identity(Len(M)))

\* C23: whenever the Cholesky attempt of a stage succeeded on a symmetric
\* matrix M, the factor satisfies L L^T = M, L_inv solves L X = I, the inverse
\* the stage kept is (L_inv)^T L_inv, and M times that inverse is the identity.
C23_CholeskyPathInverse ==
    \A i \in 1..Len(path) :
        (/\ path[i].op = "cholesky" /\ path[i].ok
         /\ IsSymmetric(StageMatrix(path[i].stage))) =>
            CholeskyInverts(Dense(StageMatrix(path[i].stage)),
                            cholesky(StageMatrix(path[i].stage)),
                            solve_triangular(cholesky(StageMatrix(path[i].stage))),
                            Dense(StageInverse(path[i].stage)))

\* a 4 x 4 positive-definite K with off-diagonal entries went through the
\* Cholesky path of K_inv_and_det
C23_Witness ==
    /\ nb = "advection" /\ fn = "nlml" /\ pc = "idle" /\ n = 2
    /\ path = <<Event("K", "cholesky", TRUE)>>
    /\ IsSymmetric(loc.K)
    /\ \E i \in 1..4 : \E j \in 1..4 : i # j /\ loc.K[i][j] # RZero
    /\ Dense(loc.K_inv) # Dense(loc.K)

\* the closed form g applied to point i (first) and point j (second)
ClosedFormAt(g, i, j) == KernelValue(g, x[i], x[j], y[i], y[j])
\* the diagonal entries the Matern evaluators compute at a perturbed point
Perturbed(i, j) == nb = "matern" /\ i = j
\* M is a square matrix of size m
IsSquare(M, m) == Len(M) = m /\ \A i \in 1..m : Len(M[i]) = m
\* entry (i, j) of the kernel blocks held by the locals of an evaluation
BlockEntriesFromClosedForms(i, j) ==
    /\ loc.K # Nil =>
          /\ loc.K[i][j] = RAdd(ClosedFormAt(kuu_fn, i, j), NoiseEye(s, n)[i][j])
          /\ ~Perturbed(i, j) =>
                /\ loc.K[n + i][j] = ClosedFormAt(kfu_fn, i, j)
                /\ loc.K[j][n + i] = ClosedFormAt(kfu_fn, i, j)
                /\ loc.K[n + i][n + j] =
                       RAdd(ClosedFormAt(kff_fn, i, j), NoiseEye(s, n)[i][j])
    /\ loc.B # Nil =>
          /\ loc.A[i][j] = RAdd(ClosedFormAt(kuu_fn, i, j), NoiseEye(s, n)[i][j])
          /\ ~Perturbed(i, j) =>
                /\ loc.B[j][i] = ClosedFormAt(kfu_fn, i, j)
                /\ loc.C[i][j] = RAdd(ClosedFormAt(kff_fn, i, j), NoiseEye(s, n)[i][j])

RECURSIVE EventIndex(_, _)
EventIndex(e, k) == IF k = 0 THEN 0 ELSE IF path[k] = e THEN k ELSE EventIndex(e, k - 1)
Happened(e) == EventIndex(e, Len(path)) > 0
\* the inverse of A that the path taken for A produces
InverseByPathOfA ==
    IF Happened(Event("A", "cholesky", TRUE))
    THEN Dense(GramT(solve_triangular(cholesky(loc.A))))
    ELSE Dense(SvdInverse(svd(loc.A)))

\* C25: in the block objectives A is inverted before the Schur complement
\* exists; S = C - B^T A^{-1} B uses the A^{-1} of whichever path handled A;
\* S takes the Cholesky path exactly when its own factorization succeeds,
\* whatever path A took.
C25_SchurAfterAInverse ==
    loc.B # Nil =>
        /\ (loc.KA # Nil \/ \E k \in 1..Len(path) : path[k].stage = "KA") =>
              /\ Happened(Event("A", "cholesky", TRUE)) \/ Happened(Event("A", "svd", TRUE))
              /\ Dense(loc.A_inv) = InverseByPathOfA
              /\ Dense(loc.KA) =
                     Dense(MatSub(loc.C, MatMul(MatMul(Transpose(loc.B), loc.A_inv), loc.B)))
        /\ \A k \in 1..Len(path) :
              path[k].stage = "KA" =>
                  /\ \E a \in 1..(k - 1) : path[a].stage = "A" /\ path[a].ok
                  /\ path[k].op = "cholesky" => path[k].ok = cholesky(loc.KA).ok
                  /\ path[k].op = "svd" => ~cholesky(loc.KA).ok
        /\ (pc = "idle" /\ out[fn].kind = "value") =>
              IF cholesky(loc.KA).ok
              THEN path[Len(path)] = Event("KA", "cholesky", TRUE)
              ELSE path[Len(path)] = Event("KA", "svd", TRUE)

\* A fell back to the SVD and the Schur complement built from that inverse
\* went through Cholesky
C25_Witness ==
    /\ loc.B # Nil /\ pc = "idle" /\ out[fn].kind = "value"
    /\ path = <<Event("A", "cholesky", FALSE), Event("A", "svd", TRUE),
                Event("KA", "cholesky", TRUE)>>

\* C26: whichever branch of the form-B nlml ran, Cholesky or SVD, the value
\* returned is det(f K) with f = y_con^T K^{-1} y_con.
C26_BranchIndependentDetFK ==
    (nb = "pde1" /\ fn = "nlml" /\ pc = "idle" /\ out["nlml"].kind = "value") =>
        /\ loc.f = Quad(y_con, Inverse(loc.K), y_con)
        /\ out["nlml"].val = Det(MatScale(loc.f, loc.K))


\* a step of the except block of a whole-matrix solver keeps K and inverts it by SVD
ExceptStepKeepsK ==
    pc \in ExceptPcs("K") =>
        /\ ~cholesky(loc.K).ok
        /\ Dense(loc'.K) = Dense(loc.K)
        /\ path'[Len(path')].stage = "K" /\ path'[Len(path')].op = "svd"
        /\ path'[Len(path')].ok =>
              Dense(loc'.K_inv) = Dense(SvdInverse(svd(loc.K)))

\* C27: the except block of a whole-matrix solver rebuilds K by a second call
\* of K(...); the matrix it decomposes by SVD is entry for entry the matrix on
\* which Cholesky failed, and the inverse kept is the SVD inverse of that matrix.
C27_SvdDecomposesFailedMatrix == [][ExceptStepKeepsK]_vars

\* K_inv_and_det fell back to the SVD of a K that was built a second time
C27_Witness ==
    /\ nb = "advection" /\ fn = "nlml" /\ pc = "idle"
    /\ path = <<Event("K", "cholesky", FALSE), Event("K", "svd", TRUE)>>
    /\ loc.kfu_runs = 4
    /\ Dense(loc.K) = Dense(K)

\* the derivative matrices of the three hyperparameters
DerivMatrices == <<K_l_x, K_l_y, K_phi>>

\* C28: in K_l_x, K_l_y and K_phi exactly one of the four index conditions
\* holds for every (i, j), so every entry of the 2n x 2n matrix is assigned
\* exactly once, and the upper-right block is the transpose of the lower-left
\* block.
C28_DerivativeEntriesAssignedOnce ==
    \A h \in 1..3 :
        /\ IsSquare(DerivMatrices[h], 2 * n)
        /\ \A i \in 1..(2 * n) : \A j \in 1..(2 * n) :
              /\ Cardinality({c \in 1..4 : DerivCond(c, i, j)}) = 1
              /\ DerivEntry(dk_fn[h], i, j, 4).writes = 1
              /\ DerivMatrices[h][i][j] =
                     DerivValue(dk_fn[h], CHOOSE c \in 1..4 : DerivCond(c, i, j), i, j)
        /\ \A i \in 1..n : \A j \in 1..n :
              DerivMatrices[h][i][n + j] = DerivMatrices[h][n + j][i]

\* grad_nlml returned for two samples with a cross derivative that differs
\* between the two orders of the points
C28_Witness ==
    /\ nb = "pde1" /\ fn = "grad_nlml" /\ pc = "idle" /\ out["grad_nlml"].kind = "value"
    /\ n = 2
    /\ \E h \in 1..3 :
          /\ DerivMatrices[h][3][2] # DerivMatrices[h][4][1]
          /\ DerivMatrices[h][2][3] = DerivMatrices[h][3][2]

\* the joint matrix built from the kernel blocks with the noise sn
JointMatrixWith(sn) ==
    Dense(Block(MatAdd(kuu, NoiseEye(sn, n)), kuf, kfu, MatAdd(kff, NoiseEye(sn, n))))

\* C29: nlml_svd builds K with the noise its caller passed; binding the name s
\* to the singular values afterwards changes neither that K nor the noise the
\* caller and later evaluations see: the singular values kept are those of the
\* K built with the caller's noise, and every later K is built with it too.
C29_NoiseArgumentBuildsK ==
    nb = "svd_cmp" =>
        /\ s = NoiseOf(nb)
        /\ loc.K # Nil => Dense(loc.K) = JointMatrixWith(NoiseOf(nb))
        /\ (fn = "nlml_svd" /\ out["nlml_svd"].kind = "value") =>
              /\ loc.log_sum = SvdLogSum(svd(JointMatrixWith(NoiseOf(nb))))
              /\ Dense(loc.K_inv) = Dense(SvdInverse(svd(JointMatrixWith(NoiseOf(nb)))))

\* nlml ran after nlml_svd had returned, on a K with the same noise
C29_Witness ==
    /\ nb = "svd_cmp" /\ out["nlml_svd"].kind = "value"
    /\ fn = "nlml" /\ pc = "idle" /\ out["nlml"].kind = "value"
    /\ n = 2 /\ loc.K[1][1] = RAdd(kuu[1][1], NoiseOf(nb)) /\ NoiseOf(nb) # RZero

\* C21: the symbolic work is done once before the first evaluation: no
\* objective evaluation requested by the optimizer takes a symbolic
\* determinant or inverts a symbolic matrix.
C21_NoSymbolicWorkInEvaluation ==
    (nb = "symbolic" /\ fn = "nlml_wp" /\ pc = "idle") =>
        loc.sym_det = 0 /\ loc.sym_inv = 0

\* the parameter vector p cut back to its first r updates
AfterUpdates(p, r) == [init |-> p.init, upd |-> SubSeq(p.upd, 1, r)]
\* traj has epochs + 1 rows: the starting point of p, then p after each of its
\* first k updates, then the rows np.zeros left untouched
TrajectoryOf(traj, p, k, epochs) ==
    /\ Len(traj) = epochs + 1
    /\ traj[1] = AdamPoint(p.init)
    /\ \A r \in 1..k : traj[r + 1] = AfterUpdates(p, r)
    /\ \A r \in (k + 2)..(epochs + 1) : traj[r] = AdamPoint(VecOver(VecZero, 1))
\* adams has made j <= n_epochs updates and recorded each; every trajectory
\* returned holds n_epochs updates of its own starting point; the restart loop
\* has appended one trajectory per run and returns after n runs
AdamShape ==
    /\ opt.pc = "epoch" =>
          /\ opt.j <= opt.n_epochs
          /\ Len(opt.params.upd) = opt.j
          /\ opt.params.init \in AdamStarts
          /\ TrajectoryOf(opt.param_traj, opt.params, opt.j, opt.n_epochs)
    /\ opt.it <= opt.n /\ Len(opt.all_results) = opt.it
    /\ \A i \in 1..Len(opt.all_results) :
          /\ opt.all_results[i][1].init \in AdamStarts
          /\ Len(opt.all_results[i][opt.n_epochs + 1].upd) = opt.n_epochs
          /\ TrajectoryOf(opt.all_results[i], opt.all_results[i][opt.n_epochs + 1],
                          opt.n_epochs, opt.n_epochs)
    /\ opt.pc = "returned" =>
          opt.it = opt.n /\ opt.result = opt.all_results /\ Len(opt.result) = opt.n

\* C30: adams makes exactly n_epochs updates and returns a trajectory of
\* n_epochs + 1 rows, the starting point first and then the parameters after
\* each update; minimize_restarts_adam runs it n times, each run from its own
\* starting point, and returns.
C30_AdamsRunsAllEpochs == []AdamShape /\ <>(opt.pc = "returned")

\* two runs of two epochs each returned, from different starting points, the
\* second update of the first run having moved the parameters
C30_Witness ==
    /\ opt.pc = "returned" /\ opt.n = 2 /\ opt.n_epochs = 2
    /\ Len(opt.result) = 2 /\ Len(opt.result[1]) = 3
    /\ opt.result[1][1] # opt.result[2][1]
    /\ opt.result[1][3].upd[2].v_hat # VecOver(VecZero, 10)
    /\ opt.result[1][3] # opt.result[1][2]

Next ==
    \/ nlml_pde1_Call \/ nlml_pde1_Try \/ nlml_pde1_Except
    \/ nlml_block_Call \/ nlml_block_TryA \/ nlml_block_ExceptA
    \/ nlml_block_TryKA \/ nlml_block_ExceptKA
    \/ grad_nlml_Call \/ K_inv_and_det_block_TryA \/ K_inv_and_det_block_ExceptA
    \/ K_inv_and_det_block_TryKA \/ K_inv_and_det_block_ExceptKA
    \/ nlml_adv_Call \/ K_inv_and_det_Try \/ K_inv_and_det_Except
    \/ nlml_cmp \/ nlml_svd
    \/ nlml_3d_Call \/ nlml_matern_Call
    \/ nlml_TryA \/ nlml_ExceptA \/ nlml_TryKA \/ nlml_ExceptKA
    \/ nlml_wp

Spec == Init /\ [][Next]_vars

NextGrad ==
    \/ grad_nlml_Call \/ K_inv_and_det_block_TryA \/ K_inv_and_det_block_ExceptA
    \/ K_inv_and_det_block_TryKA \/ K_inv_and_det_block_ExceptKA

SpecGrad == InitGrad /\ [][NextGrad]_vars
NextOpt ==
    \/ minimize_restarts_Call \/ minimize_Start \/ minimize_Observe \/ callbackF
    \/ minimize_Propose \/ minimize_Finish \/ minimize_restarts_Return
    \/ nlml_adv_Call \/ K_inv_and_det_Try \/ K_inv_and_det_Except
    \/ nlml_3d_Call \/ nlml_matern_Call
    \/ nlml_TryA \/ nlml_ExceptA \/ nlml_TryKA \/ nlml_ExceptKA

SpecOpt == InitOpt /\ [][NextOpt]_vars

NextArgs == nlml_cmp \/ nlml_svd

SpecArgs == InitArgs /\ [][NextArgs]_vars

NextAdam ==
    \/ minimize_restarts_adam_Call \/ adams_Call \/ adams_Epoch \/ adams_Return
    \/ minimize_restarts_adam_Return

\* the interpreter keeps executing the cell until it returns
SpecAdam == InitAdam /\ [][NextAdam]_vars /\ WF_vars(NextAdam)
=============================================================================
